---- MODULE Spec2Model ----
(***************************************************************************)
(* State-diffing service of go-ethereum (package statediff).               *)
(*                                                                         *)
(* The model follows Service in src/unnamed/part_004: the subscription     *)
(* registry guarded by the embedded sync.Mutex, the atomic subscribers     *)
(* gate, the event Loop with its fan-out (send) and shutdown (close), and  *)
(* the API callers running Subscribe and Unsubscribe concurrently with the *)
(* loop.  Go channels are modelled by what a non-blocking send can see: a  *)
(* buffer of fixed capacity and whether a receiver is parked on it.        *)
(***************************************************************************)
EXTENDS Integers, Sequences, FiniteSets, TLC

\* ------------------------------------------------------------------ bounds
MaxEvents == 2
MaxChanCap == 1
MaxExtracts == 2
MaxBlocks == 2

\* Two API callers, each with its own rpc id, payload channel and quit
\* channel; a caller may name either id when it unsubscribes.
Callers == {1, 2}
Ids == Callers
\* Modified accounts as a state-change event reports them: the account and
\* the storage slots written.  The last one has a negative balance, which
\* RLP cannot encode.
modifiedAccount1 ==
    [Account |-> [Nonce |-> 0, Balance |-> 100, Root |-> "0x01"],
     Storage |-> <<>>]
modifiedAccount2 ==
    [Account |-> [Nonce |-> 0, Balance |-> 200, Root |-> "0x02"],
     Storage |-> [k \in {"0x02", "0x03"} |-> "0x02"]]
unencodableAccount ==
    [Account |-> [Nonce |-> 0, Balance |-> -1, Root |-> "0x03"],
     Storage |-> <<>>]
DataAccounts == {modifiedAccount1, modifiedAccount2, unencodableAccount}

\* state.StateChanges values: maps from some of the addresses to accounts.
StateChangesOver(addrs, accounts) ==
    UNION {[S -> accounts] : S \in SUBSET addrs}

VARIABLES
    Subscriptions,     \* sds.Subscriptions: rpc id -> Subscription
    subscribers,       \* sds.subscribers, the atomic int32 gate
    locked,            \* sds.Mutex
    WatchedAddresses,  \* sds.WatchedAddresses
    quitClosed,        \* sds.QuitChan has been closed by Stop
    errPending,        \* an error is waiting on stateChangeEventsSub.Err()
    eventCh,           \* stateChangeEventCh, the buffered event channel
    produced,          \* number of events the chain has emitted
    loopPc,            \* position of the Loop goroutine
    payload,           \* Loop's local: the payload being fanned out
    todo,              \* ids the running range loop has not visited yet
    pc,                \* position of each API caller
    ret,               \* what the last Unsubscribe call returned
    chanCap,           \* capacity of each caller's payload channel
    reads,             \* how each caller's consumer reads its channels
    payloadBuf,        \* buffered payloads of each payload channel
    received,          \* payloads the consumer has taken, in order
    quitCount,         \* quit signals each consumer took in the running pass
    \* ---- observation (history) variables, read by no action guard
    passStart,         \* registry when the running send/close took the lock
    passQuit,          \* ids whose quit channel had a receiver blocked on it
    attempts,          \* id -> channel attempts <<payload, quit>> this pass
    missed,            \* id -> its channel refused a payload since Subscribe
    sentLog,           \* the payloads handed to send, in call order
    diffWork,          \* number of processStateChanges calls
    processingErrs,    \* number of events whose processing returned an error
    exitCause,         \* why Loop returned
    \* ---- one BuildStateDiff call of the builder
    chainDB,           \* sdb.chainDB: the stored address preimages
    call,              \* the arguments of the call
    bpc,               \* position inside BuildStateDiff
    creations,         \* accounts collected by the old-to-new pass
    deletions,         \* accounts collected by the new-to-old pass
    collected,         \* observation: the two maps as the passes left them
    updatedKeys,       \* the sorted keys found by both passes
    updatedAccounts,   \* result of buildDiffIncremental
    createdAccounts,   \* result of buildDiffEventual(creations, true)
    deletedAccounts,   \* result of buildDiffEventual(deletions, false)
    result,            \* what BuildStateDiff returned: <<diff, err>>
    \* ---- the extractor and the block-driven services that call it
    builderCalls,      \* arguments of each Builder.BuildStateDiff call
    publisherCalls,    \* argument of each Publisher.PublishStateDiff call
    extractCalls,      \* each ExtractStateDiff call and what it returned
    events,            \* the channel of chain events the service reads
    eventsClosed,      \* the events channel has been closed
    spc,               \* position of the service's loop
    ParentHashesLookedUp, \* hashes passed to BlockChain.GetBlockByHash
    delivered          \* observation: blocks of the events received

svcVars == <<Subscriptions, subscribers, locked, WatchedAddresses, quitClosed>>
chainVars == <<errPending, eventCh, produced>>
loopVars == <<loopPc, payload, todo>>
callerVars == <<pc, ret>>
chanCfg == <<chanCap, reads>>
chanVars == <<payloadBuf, received, quitCount>>
passVars == <<passStart, passQuit, attempts>>
histVars == <<missed, sentLog, diffWork, processingErrs, exitCause>>
serviceVars == <<svcVars, chainVars, loopVars, callerVars, chanCfg, chanVars,
                 passVars, histVars>>
builderVars == <<chainDB, call, bpc, creations, deletions, collected,
                 updatedKeys, updatedAccounts, createdAccounts,
                 deletedAccounts, result>>
extractorVars == <<builderCalls, publisherCalls, extractCalls>>
blockVars == <<events, eventsClosed, spc, ParentHashesLookedUp, delivered>>
pipelineVars == <<extractorVars, blockVars>>
vars == <<serviceVars, builderVars, pipelineVars>>

\* ------------------------------------------------------------ data helpers
EmptyMap == [i \in {} |-> 0]
emptyPayload == [StateDiffRlp |-> <<>>]

Remove(m, id) == [i \in DOMAIN m \ {id} |-> m[i]]
Put(m, id, v) == [i \in DOMAIN m \cup {id} |-> IF i = id THEN v ELSE m[i]]

\* The Subscription struct built by Subscribe from its two channel arguments.
Subscription(sub, quitChan) == [PayloadChan |-> sub, QuitChan |-> quitChan]

\* ------------------------------------------------------ hex and addresses
\* A string is a sequence of characters.  Value of a hex digit, in either
\* case; -1 for a character that is no hex digit.
HexVal(ch) ==
    CASE ch = "0" -> 0 [] ch = "1" -> 1 [] ch = "2" -> 2 [] ch = "3" -> 3
      [] ch = "4" -> 4 [] ch = "5" -> 5 [] ch = "6" -> 6 [] ch = "7" -> 7
      [] ch = "8" -> 8 [] ch = "9" -> 9
      [] ch \in {"a", "A"} -> 10 [] ch \in {"b", "B"} -> 11
      [] ch \in {"c", "C"} -> 12 [] ch \in {"d", "D"} -> 13
      [] ch \in {"e", "E"} -> 14 [] ch \in {"f", "F"} -> 15
      [] OTHER -> -1

LowerDigits == <<"0", "1", "2", "3", "4", "5", "6", "7", "8", "9",
                 "a", "b", "c", "d", "e", "f">>
UpperDigits == <<"0", "1", "2", "3", "4", "5", "6", "7", "8", "9",
                 "A", "B", "C", "D", "E", "F">>

\* A byte string is the sequence of the values of its hex digits, two to
\* the byte.  common.Hex2Bytes: hex.DecodeString decodes the string pair
\* by pair and stops at the first pair that holds a character which is no
\* hex digit; Hex2Bytes drops the error and keeps the bytes decoded so far.
Hex2Bytes(str) ==
    LET pairs == Len(str) \div 2
        bad == {i \in 1..pairs :
                   HexVal(str[2 * i - 1]) = -1 \/ HexVal(str[2 * i]) = -1}
        n == IF bad = {} THEN pairs
             ELSE (CHOOSE i \in bad : \A j \in bad : i <= j) - 1
    IN [i \in 1..(2 * n) |-> HexVal(str[i])]

\* common.FromHex: an optional 0x or 0X prefix is dropped and a string of
\* odd length gets a leading "0".
FromHex(str) ==
    LET s == IF Len(str) > 1 /\ str[1] = "0" /\ str[2] \in {"x", "X"}
             THEN SubSeq(str, 3, Len(str))
             ELSE str
    IN Hex2Bytes(IF Len(s) % 2 = 1 THEN <<"0">> \o s ELSE s)

\* An address is the sequence of the values of its forty hex digits, the
\* twenty bytes of common.Address.
ZeroAddress ==
    <<0, 0, 0, 0, 0, 0, 0, 0, 0, 0, 0, 0, 0, 0, 0, 0, 0, 0, 0, 0, 0, 0, 0,
      0, 0, 0, 0, 0, 0, 0, 0, 0, 0, 0, 0, 0, 0, 0, 0, 0>>
AddressLength == Len(ZeroAddress)

\* common.BytesToAddress: longer input keeps its rightmost twenty bytes,
\* shorter input is padded with zeros on the left.
BytesToAddress(b) ==
    IF Len(b) >= AddressLength
    THEN SubSeq(b, Len(b) - AddressLength + 1, Len(b))
    ELSE [i \in 1..(AddressLength - Len(b)) |-> 0] \o b

\* common.HexToAddress
HexToAddress(str) == BytesToAddress(FromHex(str))

\* The addresses of the service tests and of the builder tests.
testAccount1Address == HexToAddress(<<"0", "x", "1">>)
testAccount2Address == HexToAddress(<<"0", "x", "2">>)
ContractAddr ==
    HexToAddress(
      <<"0", "x", "a", "E", "9", "B", "E", "a", "6", "2", "8", "c", "4",
        "C", "e", "5", "0", "3", "D", "c", "F", "D", "7", "E", "3", "0",
        "5", "C", "a", "B", "4", "e", "2", "9", "E", "7", "4", "7", "6",
        "5", "9", "2">>)
TestBankAddress ==
    HexToAddress(
      <<"0", "x", "7", "1", "5", "6", "2", "b", "7", "1", "9", "9", "9",
        "8", "7", "3", "D", "B", "5", "b", "2", "8", "6", "d", "F", "9",
        "5", "7", "a", "f", "1", "9", "9", "E", "c", "9", "4", "6", "1",
        "7", "F", "7">>)
Account1Addr ==
    HexToAddress(
      <<"0", "x", "7", "0", "3", "c", "4", "b", "2", "b", "D", "7", "0",
        "c", "1", "6", "9", "f", "5", "7", "1", "7", "1", "0", "1", "C",
        "a", "e", "E", "5", "4", "3", "2", "9", "9", "F", "c", "9", "4",
        "6", "C", "7">>)
Account2Addr ==
    HexToAddress(
      <<"0", "x", "0", "D", "3", "a", "b", "1", "4", "B", "B", "a", "D",
        "3", "D", "9", "9", "F", "4", "2", "0", "3", "b", "d", "7", "a",
        "1", "1", "a", "C", "B", "9", "4", "8", "8", "2", "0", "5", "0",
        "E", "7", "e">>)
\* The accounts a state-change event may report as modified.
Addresses == {testAccount1Address}
DataAddresses == {ZeroAddress, ContractAddr}

\* hex.EncodeToString of an address: forty lower-case digits.
EncodeToString(a) == [i \in 1..AddressLength |-> LowerDigits[a[i] + 1]]

\* The Keccak-256 hash of EncodeToString(a), as the values of its first
\* forty hex digits, for the addresses above.
Keccak256(a) ==
    CASE a = ZeroAddress ->
           <<12, 12, 12, 5, 2, 7, 15, 14, 1, 15, 9, 3, 9, 1, 11, 15, 15, 4,
             4, 4, 9, 9, 4, 13, 13, 12, 10, 4, 0, 4, 11, 14, 13, 1, 13, 12,
             0, 0, 8, 10>>
      [] a = testAccount1Address ->
           <<1, 14, 15, 5, 2, 2, 1, 15, 15, 1, 8, 11, 10, 11, 15, 9, 13, 4,
             10, 7, 6, 14, 3, 1, 8, 7, 4, 6, 0, 0, 13, 14, 7, 2, 0, 3, 14,
             11, 13, 10>>
      [] a = testAccount2Address ->
           <<5, 13, 14, 10, 1, 7, 12, 15, 11, 13, 4, 1, 10, 7, 0, 4, 4, 0,
             7, 7, 1, 4, 11, 3, 7, 9, 0, 7, 2, 9, 10, 11, 1, 5, 5, 2, 2, 6,
             1, 10>>
      [] a = ContractAddr ->
           <<7, 15, 5, 11, 10, 5, 12, 1, 11, 3, 1, 8, 4, 15, 0, 8, 12, 5,
             12, 8, 14, 11, 5, 5, 15, 13, 0, 14, 14, 3, 15, 6, 8, 3, 6, 3,
             13, 14, 1, 11>>
      [] a = TestBankAddress ->
           <<6, 5, 3, 7, 6, 0, 13, 1, 4, 7, 1, 13, 7, 2, 10, 13, 15, 2, 0,
             2, 2, 3, 12, 14, 10, 8, 1, 7, 2, 15, 3, 10, 2, 1, 6, 6, 8, 5,
             10, 1>>
      [] a = Account1Addr ->
           <<6, 9, 4, 5, 0, 2, 0, 2, 8, 0, 10, 5, 11, 7, 3, 2, 10, 5, 15, 0,
             13, 0, 5, 15, 4, 6, 10, 11, 15, 10, 1, 6, 9, 8, 5, 3, 5, 12,
             12, 2>>
      [] a = Account2Addr ->
           <<15, 10, 4, 1, 3, 10, 14, 10, 14, 4, 8, 14, 10, 14, 8, 9, 15,
             13, 13, 8, 1, 4, 1, 6, 11, 0, 5, 12, 15, 1, 9, 7, 11, 10, 13,
             11, 10, 9, 1, 7>>

\* Whether Hex writes the i-th digit of address a in upper case (EIP-55):
\* the digit is a letter and the i-th hex digit of the hash exceeds 7.
ChecksumUpper(a, i) == a[i] > 9 /\ Keccak256(a)[i] > 7

\* common.Address.Hex: the checksummed hex string with its 0x prefix.
Hex(a) ==
    <<"0", "x">> \o [i \in 1..AddressLength |->
                        IF ChecksumUpper(a, i) THEN UpperDigits[a[i] + 1]
                                               ELSE LowerDigits[a[i] + 1]]

\* addressInWatchedAddresses: each watched string is parsed and compared
\* with the address in checksummed hex form.
addressInWatchedAddresses(address) ==
    \E k \in 1..Len(WatchedAddresses) :
        Hex(HexToAddress(WatchedAddresses[k])) = Hex(address)

\* filterByWatchedAddresses: a new map with the watched entries, or the
\* input itself when nothing is watched.  stateChanges maps addresses to
\* modified accounts.
filterByWatchedAddresses(stateChanges) ==
    IF Len(WatchedAddresses) > 0
    THEN [addr \in {x \in DOMAIN stateChanges : addressInWatchedAddresses(x)}
            |-> stateChanges[addr]]
    ELSE stateChanges

\* ------------------------------------------------------------- encoding
\* rlp.EncodeToBytes fails on a negative big integer and on nothing else
\* that occurs here.
Encodable(account) == account.Balance >= 0

\* The bytes rlp.EncodeToBytes returns for an encodable value.  RLP is
\* injective; the encoding is kept apart from the value by its tag.
EncodeToBytes(v) == <<"rlp", v>>
\* rlp.DecodeBytes, the inverse on encodings.
DecodeBytes(b) == b[2]

\* The orders in which a Go range statement may visit the keys of a map.
RangeOrders(keys) ==
    {o \in [1..Cardinality(keys) -> keys] :
        \A i, j \in 1..Cardinality(keys) : i # j => o[i] # o[j]}

emptyAccountDiff == [Key |-> <<>>, Value |-> <<>>, Storage |-> <<>>]

\* buildAccountDiff: the results it can return, one per order in which the
\* storage map is ranged over, or the encoding error.
buildAccountDiff(addr, modifiedAccount) ==
    IF ~Encodable(modifiedAccount.Account)
    THEN {[diff |-> emptyAccountDiff, err |-> TRUE]}
    ELSE {[diff |-> [Key |-> addr,
                     Value |-> EncodeToBytes(modifiedAccount.Account),
                     Storage |-> [i \in 1..Len(o) |->
                         [Key |-> o[i],
                          Value |-> EncodeToBytes(
                                       modifiedAccount.Storage[o[i]])]]],
            err |-> FALSE] : o \in RangeOrders(DOMAIN modifiedAccount.Storage)}

\* processStateChanges: the results it can return.  The map is ranged over
\* in any order; the first account that fails to encode ends the call with
\* the empty payload and the error, whatever was built before it; no
\* account diffs gives the empty payload without error.
processStateChanges(stateChanges, block) ==
    IF \E addr \in DOMAIN stateChanges :
           \E r \in buildAccountDiff(addr, stateChanges[addr]) : r.err
    THEN {[payload |-> emptyPayload, err |-> TRUE]}
    ELSE IF DOMAIN stateChanges = {}
    THEN {[payload |-> emptyPayload, err |-> FALSE]}
    ELSE {[payload |-> [StateDiffRlp |-> EncodeToBytes(
                           [BlockNumber |-> block.Number,
                            BlockHash |-> block.Hash,
                            UpdatedAccounts |-> accountDiffs])],
            err |-> FALSE] :
          accountDiffs \in UNION {
              {ds \in [1..Len(o) -> UNION {{r.diff :
                            r \in buildAccountDiff(a, stateChanges[a])} :
                                   a \in DOMAIN stateChanges}] :
                  \A i \in 1..Len(o) :
                      \E r \in buildAccountDiff(o[i], stateChanges[o[i]]) :
                          ds[i] = r.diff} :
              o \in RangeOrders(DOMAIN stateChanges)}}

isEmptyPayload(p) == p = emptyPayload

\* atomic.CompareAndSwapInt32(&sds.subscribers, old, new)
CompareAndSwap(cur, old, new) == IF cur = old THEN new ELSE cur

\* Whether a receiver is blocked on a channel of consumer c at the moment of
\* a send attempt: what the consumer's reading habit allows.
Waiting(c) ==
    CASE reads[c] = "always" -> {TRUE}
      [] reads[c] = "never" -> {FALSE}
      [] OTHER -> BOOLEAN

\* A non-blocking send on a payload channel succeeds when a receiver is
\* blocked on it (pw) or its buffer has room.
PayloadReady(c, pw) == pw \/ Len(payloadBuf[c]) < chanCap[c]
\* Quit channels are unbuffered: a send succeeds when a receiver is blocked.
QuitReady(q, qw) == qw

\* ------------------------------------------------------------------- Init
\* The service as NewStateDiffService builds it, with Loop started, and the
\* consumers' channels empty.
InitService ==
    /\ locked = FALSE
    /\ quitClosed = FALSE
    /\ errPending = FALSE
    /\ eventCh = <<>>
    /\ produced = 0
    /\ loopPc = "select"
    /\ payload = emptyPayload
    /\ todo = {}
    /\ pc = [t \in Callers |-> "idle"]
    /\ ret = "none"
    /\ payloadBuf = [t \in Callers |-> <<>>]
    /\ received = [t \in Callers |-> <<>>]
    /\ quitCount = [t \in Callers |-> 0]
    /\ passStart = EmptyMap
    /\ passQuit = {}
    /\ attempts = [i \in Ids |-> <<0, 0>>]
    /\ missed = [i \in Ids |-> FALSE]
    /\ sentLog = <<>>
    /\ diffWork = 0
    /\ processingErrs = 0
    /\ exitCause = "none"

\* No BuildStateDiff call is in progress and none has been made.
NoBuild ==
    /\ chainDB = <<>>
    /\ call = <<>>
    /\ bpc = "idle"
    /\ creations = <<>>
    /\ deletions = <<>>
    /\ collected = <<>>
    /\ updatedKeys = <<>>
    /\ updatedAccounts = <<>>
    /\ createdAccounts = <<>>
    /\ deletedAccounts = <<>>
    /\ result = <<>>

\* No extractor or block-driven service is running.
NoPipeline ==
    /\ builderCalls = <<>>
    /\ publisherCalls = <<>>
    /\ extractCalls = <<>>
    /\ events = <<>>
    /\ eventsClosed = FALSE
    /\ spc = "idle"
    /\ ParentHashesLookedUp = <<>>
    /\ delivered = <<>>

\* Nobody has subscribed yet; consumers read their channels as they please.
Init ==
    /\ InitService
    /\ NoBuild
    /\ NoPipeline
    /\ WatchedAddresses = <<>>
    /\ Subscriptions = EmptyMap
    /\ subscribers = 0
    /\ chanCap \in {[t \in Callers |-> k] : k \in 0..MaxChanCap}
    /\ reads = [t \in Callers |-> "free"]

\* ------------------------------------------------ API callers (any thread)
\* Subscribe, first statement: the gate is raised before the lock is taken.
SubscribeCAS(t) ==
    /\ pc[t] = "idle"
    /\ subscribers' = CompareAndSwap(subscribers, 0, 1)
    /\ pc' = [pc EXCEPT ![t] = "sub_lock"]
    /\ UNCHANGED <<Subscriptions, locked, WatchedAddresses, quitClosed,
                   chainVars, loopVars, ret, chanCfg, chanVars, passVars,
                   histVars,
                   builderVars, pipelineVars>>

\* Mutant of SubscribeInsert: the map store is made without sds.Lock().
SubscribeInsertUnlocked(t) ==
    /\ pc[t] = "sub_lock"
    /\ Subscriptions' = Put(Subscriptions, t, Subscription(t, t))
    /\ pc' = [pc EXCEPT ![t] = "idle"]
    /\ missed' = [missed EXCEPT ![t] = FALSE]
    /\ UNCHANGED <<subscribers, locked, WatchedAddresses, quitClosed,
                   chainVars, loopVars, ret, chanCfg, chanVars, passVars,
                   sentLog, diffWork, processingErrs, exitCause,
                   builderVars, pipelineVars>>

\* Subscribe: sds.Lock(), the map store, sds.Unlock().  Caller t registers
\* its own payload and quit channels under its id.
SubscribeInsert(t) ==
    /\ pc[t] = "sub_lock"
    /\ ~locked
    /\ Subscriptions' = Put(Subscriptions, t, Subscription(t, t))
    /\ pc' = [pc EXCEPT ![t] = "idle"]
    /\ missed' = [missed EXCEPT ![t] = FALSE]
    /\ UNCHANGED <<subscribers, locked, WatchedAddresses, quitClosed,
                   chainVars, loopVars, ret, chanCfg, chanVars, passVars,
                   sentLog, diffWork, processingErrs, exitCause,
                   builderVars, pipelineVars>>

\* Mutant of Unsubscribe: the gate is lowered after every removal, without
\* the len(sds.Subscriptions) == 0 test.
UnsubscribeAlwaysLowers(t, id) ==
    /\ pc[t] = "idle"
    /\ ~locked
    /\ IF id \notin DOMAIN Subscriptions
       THEN /\ ret' = "err"
            /\ locked' = TRUE
            /\ UNCHANGED <<Subscriptions, subscribers>>
       ELSE /\ Subscriptions' = Remove(Subscriptions, id)
            /\ subscribers' = CompareAndSwap(subscribers, 1, 0)
            /\ ret' = "nil"
            /\ UNCHANGED locked
    /\ UNCHANGED <<WatchedAddresses, quitClosed, chainVars, loopVars, pc,
                   chanCfg, chanVars, passVars, histVars,
                   builderVars, pipelineVars>>

\* Unsubscribe, from sds.Lock() to the return.  The early return for an
\* unknown id leaves without sds.Unlock().
Unsubscribe(t, id) ==
    /\ pc[t] = "idle"
    /\ ~locked
    /\ IF id \notin DOMAIN Subscriptions
       THEN /\ ret' = "err"
            /\ locked' = TRUE
            /\ UNCHANGED <<Subscriptions, subscribers>>
       ELSE /\ Subscriptions' = Remove(Subscriptions, id)
            /\ subscribers' = IF DOMAIN Subscriptions' = {}
                              THEN CompareAndSwap(subscribers, 1, 0)
                              ELSE subscribers
            /\ ret' = "nil"
            /\ UNCHANGED locked
    /\ UNCHANGED <<WatchedAddresses, quitClosed, chainVars, loopVars, pc,
                   chanCfg, chanVars, passVars, histVars,
                   builderVars, pipelineVars>>

\* -------------------------------------------------------- service control
\* The process has died of a run-time panic: no goroutine runs any more.
ProcessDied == \A t \in Callers : pc[t] = "crashed"

\* Stop: close(sds.QuitChan).  Closing a channel that is closed already
\* is a run-time panic, which nothing recovers: the process dies, and with
\* it every caller and Loop, unless Loop had returned before.
Stop ==
    /\ ~ProcessDied
    /\ IF quitClosed
       THEN /\ loopPc' = IF loopPc = "done" THEN "done" ELSE "crashed"
            /\ pc' = [t \in Callers |-> "crashed"]
            /\ UNCHANGED <<quitClosed, payload, todo, ret>>
       ELSE /\ quitClosed' = TRUE
            /\ UNCHANGED <<loopVars, callerVars>>
    /\ UNCHANGED <<Subscriptions, subscribers, locked, WatchedAddresses,
                   chainVars, chanCfg, chanVars,
                   passVars, histVars,
                   builderVars, pipelineVars>>

\* ------------------------------------------------------------ the chain
\* The chain feeds stateChangeEventCh; blocks are numbered in arrival order.
ChainEvent(stateChanges) ==
    /\ ~ProcessDied
    /\ produced < MaxEvents
    /\ produced' = produced + 1
    /\ eventCh' = Append(eventCh,
                      [Block |-> [Number |-> produced + 1,
                                  Hash |-> <<"hash", produced + 1>>],
                       StateChanges |-> stateChanges])
    /\ UNCHANGED <<svcVars, errPending, loopVars, callerVars, chanCfg,
                   chanVars, passVars, histVars,
                   builderVars, pipelineVars>>

\* The event subscription reports an error on its Err() channel.
ChainError ==
    /\ ~ProcessDied
    /\ ~errPending
    /\ exitCause # "err"
    /\ errPending' = TRUE
    /\ UNCHANGED <<svcVars, eventCh, produced, loopVars, callerVars,
                   chanCfg, chanVars, passVars, histVars,
                   builderVars, pipelineVars>>

\* ------------------------------------------------------------------- Loop
\* Mutant of LoopEvent: the newest queued event is handled first.
LoopEventNewestFirst ==
    /\ loopPc = "select"
    /\ eventCh # <<>>
    /\ LET ev == eventCh[Len(eventCh)]
           stateChanges == filterByWatchedAddresses(ev.StateChanges)
       IN \E r \in processStateChanges(stateChanges, ev.Block) :
          LET p == r.payload
          IN /\ payload' = p
             /\ processingErrs' = IF r.err THEN processingErrs + 1
                                           ELSE processingErrs
             /\ loopPc' = IF isEmptyPayload(p) THEN "select"
                                               ELSE "send_lock"
             /\ sentLog' = IF isEmptyPayload(p) THEN sentLog
                                                ELSE Append(sentLog, p)
    /\ eventCh' = SubSeq(eventCh, 1, Len(eventCh) - 1)
    /\ diffWork' = diffWork + 1
    /\ UNCHANGED <<svcVars, errPending, produced, todo, callerVars, chanCfg,
                   chanVars, passVars, missed, exitCause,
                   builderVars, pipelineVars>>

\* Mutant of LoopEvent: a processing error ends the loop like an upstream
\* error does.
LoopEventStopsOnError ==
    /\ loopPc = "select"
    /\ eventCh # <<>>
    /\ LET ev == Head(eventCh)
           stateChanges == filterByWatchedAddresses(ev.StateChanges)
       IN \E r \in processStateChanges(stateChanges, ev.Block) :
          LET p == r.payload
          IN /\ payload' = p
             /\ processingErrs' = IF r.err THEN processingErrs + 1
                                           ELSE processingErrs
             /\ loopPc' = IF r.err THEN "close_lock"
                          ELSE IF isEmptyPayload(p) THEN "select"
                                                    ELSE "send_lock"
             /\ sentLog' = IF isEmptyPayload(p) THEN sentLog
                                                ELSE Append(sentLog, p)
    /\ eventCh' = Tail(eventCh)
    /\ diffWork' = diffWork + 1
    /\ UNCHANGED <<svcVars, errPending, produced, todo, callerVars, chanCfg,
                   chanVars, passVars, missed, exitCause,
                   builderVars, pipelineVars>>

\* Mutant of LoopEvent: send is called with whatever payload came back,
\* the empty one included.
LoopEventAlwaysSends ==
    /\ loopPc = "select"
    /\ eventCh # <<>>
    /\ LET ev == Head(eventCh)
           stateChanges == filterByWatchedAddresses(ev.StateChanges)
       IN \E r \in processStateChanges(stateChanges, ev.Block) :
          LET p == r.payload
          IN /\ payload' = p
             /\ processingErrs' = IF r.err THEN processingErrs + 1
                                           ELSE processingErrs
             /\ loopPc' = "send_lock"
             /\ sentLog' = Append(sentLog, p)
    /\ eventCh' = Tail(eventCh)
    /\ diffWork' = diffWork + 1
    /\ UNCHANGED <<svcVars, errPending, produced, todo, callerVars, chanCfg,
                   chanVars, passVars, missed, exitCause,
                   builderVars, pipelineVars>>

\* case stateChangeEvent := <-stateChangeEventCh: filter, process, and call
\* send unless the payload is empty.  The gate is not consulted.
LoopEvent ==
    /\ loopPc = "select"
    /\ eventCh # <<>>
    /\ LET ev == Head(eventCh)
           stateChanges == filterByWatchedAddresses(ev.StateChanges)
       IN \E r \in processStateChanges(stateChanges, ev.Block) :
          LET p == r.payload
          IN /\ payload' = p
             /\ processingErrs' = IF r.err THEN processingErrs + 1
                                           ELSE processingErrs
             /\ loopPc' = IF isEmptyPayload(p) THEN "select"
                                               ELSE "send_lock"
             /\ sentLog' = IF isEmptyPayload(p) THEN sentLog
                                                ELSE Append(sentLog, p)
    /\ eventCh' = Tail(eventCh)
    /\ diffWork' = diffWork + 1
    /\ UNCHANGED <<svcVars, errPending, produced, todo, callerVars, chanCfg,
                   chanVars, passVars, missed, exitCause,
                   builderVars, pipelineVars>>

\* case err := <-errCh
LoopErr ==
    /\ loopPc = "select"
    /\ errPending
    /\ errPending' = FALSE
    /\ loopPc' = "close_lock"
    /\ exitCause' = "err"
    /\ UNCHANGED <<svcVars, eventCh, produced, payload, todo, callerVars,
                   chanCfg, chanVars, passVars, missed, sentLog, diffWork,
                   processingErrs,
                   builderVars, pipelineVars>>

\* case <-sds.QuitChan
LoopQuit ==
    /\ loopPc = "select"
    /\ quitClosed
    /\ loopPc' = "close_lock"
    /\ exitCause' = "quit"
    /\ UNCHANGED <<svcVars, chainVars, payload, todo, callerVars, chanCfg,
                   chanVars, passVars, missed, sentLog, diffWork,
                   processingErrs,
                   builderVars, pipelineVars>>

\* ------------------------------------------------------- channel effects
\* What an accepted send does to the payload channel of consumer c: handed
\* to the blocked receiver, or appended to the buffer.
PushPayload(c, p, pw) ==
    IF pw
    THEN /\ received' = [received EXCEPT ![c] = Append(@, p)]
         /\ UNCHANGED payloadBuf
    ELSE /\ payloadBuf' = [payloadBuf EXCEPT ![c] = Append(@, p)]
         /\ UNCHANGED received

\* select { case sub.QuitChan <- true: ... default: ... }
TryQuit(q, qw) ==
    quitCount' = IF QuitReady(q, qw)
                 THEN [quitCount EXCEPT ![q] = @ + 1]
                 ELSE quitCount

\* ------------------------------------------------------------------- send
\* send: sds.Lock(); the range loop starts over the current map.
sendLock ==
    /\ loopPc = "send_lock"
    /\ ~locked
    /\ locked' = TRUE
    /\ loopPc' = "send_iter"
    /\ todo' = DOMAIN Subscriptions
    /\ passStart' = Subscriptions
    /\ passQuit' = {}
    /\ attempts' = [i \in Ids |-> <<0, 0>>]
    /\ quitCount' = [t \in Callers |-> 0]
    /\ UNCHANGED <<Subscriptions, subscribers, WatchedAddresses, quitClosed,
                   chainVars, payload, callerVars, chanCfg, payloadBuf,
                   received, missed, sentLog, diffWork, processingErrs,
                   exitCause,
                   builderVars, pipelineVars>>

\* Mutant of sendStep: the delete sits after the select, so a subscription is
\* removed even when its payload channel accepted the payload.
sendStepEvictsAll(id, pw, qw) ==
    /\ loopPc = "send_iter"
    /\ id \in todo
    /\ todo' = todo \ {id}
    /\ LET sub == Subscriptions[id] IN
       /\ pw \in Waiting(sub.PayloadChan)
       /\ qw \in Waiting(sub.QuitChan)
       /\ pw => payloadBuf[sub.PayloadChan] = <<>>
       /\ IF PayloadReady(sub.PayloadChan, pw)
          THEN /\ PushPayload(sub.PayloadChan, payload, pw)
               /\ attempts' = [attempts EXCEPT ![id] = <<@[1] + 1, @[2]>>]
               /\ Subscriptions' = Remove(Subscriptions, id)
               /\ UNCHANGED <<quitCount, passQuit, missed>>
          ELSE /\ TryQuit(sub.QuitChan, qw)
               /\ passQuit' = IF qw THEN passQuit \cup {id} ELSE passQuit
               /\ Subscriptions' = Remove(Subscriptions, id)
               /\ missed' = [missed EXCEPT ![id] = TRUE]
               /\ attempts' =
                      [attempts EXCEPT ![id] = <<@[1] + 1, @[2] + 1>>]
               /\ UNCHANGED <<payloadBuf, received>>
    /\ UNCHANGED <<subscribers, locked, WatchedAddresses, quitClosed,
                   chainVars, loopPc, payload, callerVars, chanCfg,
                   passStart, sentLog, diffWork, processingErrs, exitCause,
                   builderVars, pipelineVars>>

\* Mutant of sendStep: a subscription whose payload channel was not ready is
\* signalled but left in the map.
sendStepKeepsStuck(id, pw, qw) ==
    /\ loopPc = "send_iter"
    /\ id \in todo
    /\ todo' = todo \ {id}
    /\ LET sub == Subscriptions[id] IN
       /\ pw \in Waiting(sub.PayloadChan)
       /\ qw \in Waiting(sub.QuitChan)
       /\ pw => payloadBuf[sub.PayloadChan] = <<>>
       /\ IF PayloadReady(sub.PayloadChan, pw)
          THEN /\ PushPayload(sub.PayloadChan, payload, pw)
               /\ attempts' = [attempts EXCEPT ![id] = <<@[1] + 1, @[2]>>]
               /\ UNCHANGED Subscriptions
               /\ UNCHANGED <<quitCount, passQuit, missed>>
          ELSE /\ TryQuit(sub.QuitChan, qw)
               /\ passQuit' = IF qw THEN passQuit \cup {id} ELSE passQuit
               /\ UNCHANGED Subscriptions
               /\ missed' = [missed EXCEPT ![id] = TRUE]
               /\ attempts' =
                      [attempts EXCEPT ![id] = <<@[1] + 1, @[2] + 1>>]
               /\ UNCHANGED <<payloadBuf, received>>
    /\ UNCHANGED <<subscribers, locked, WatchedAddresses, quitClosed,
                   chainVars, loopPc, payload, callerVars, chanCfg,
                   passStart, sentLog, diffWork, processingErrs, exitCause,
                   builderVars, pipelineVars>>

\* Mutant of sendStep: the payload send has no default case, so it waits until
\* the payload channel is ready.
sendStepBlocking(id, pw, qw) ==
    /\ loopPc = "send_iter"
    /\ id \in todo
    /\ todo' = todo \ {id}
    /\ LET sub == Subscriptions[id] IN
       /\ pw \in Waiting(sub.PayloadChan)
       /\ qw \in Waiting(sub.QuitChan)
       /\ pw => payloadBuf[sub.PayloadChan] = <<>>
       /\ PayloadReady(sub.PayloadChan, pw)
       /\ IF PayloadReady(sub.PayloadChan, pw)
          THEN /\ PushPayload(sub.PayloadChan, payload, pw)
               /\ attempts' = [attempts EXCEPT ![id] = <<@[1] + 1, @[2]>>]
               /\ UNCHANGED Subscriptions
               /\ UNCHANGED <<quitCount, passQuit, missed>>
          ELSE /\ TryQuit(sub.QuitChan, qw)
               /\ passQuit' = IF qw THEN passQuit \cup {id} ELSE passQuit
               /\ Subscriptions' = Remove(Subscriptions, id)
               /\ missed' = [missed EXCEPT ![id] = TRUE]
               /\ attempts' =
                      [attempts EXCEPT ![id] = <<@[1] + 1, @[2] + 1>>]
               /\ UNCHANGED <<payloadBuf, received>>
    /\ UNCHANGED <<subscribers, locked, WatchedAddresses, quitClosed,
                   chainVars, loopPc, payload, callerVars, chanCfg,
                   passStart, sentLog, diffWork, processingErrs, exitCause,
                   builderVars, pipelineVars>>

\* send: one iteration of the range loop, for subscription id.  pw and qw
\* say whether a receiver is blocked on its payload and on its quit channel.
sendStep(id, pw, qw) ==
    /\ loopPc = "send_iter"
    /\ id \in todo
    /\ todo' = todo \ {id}
    /\ LET sub == Subscriptions[id] IN
       /\ pw \in Waiting(sub.PayloadChan)
       /\ qw \in Waiting(sub.QuitChan)
       /\ pw => payloadBuf[sub.PayloadChan] = <<>>
       /\ IF PayloadReady(sub.PayloadChan, pw)
          THEN /\ PushPayload(sub.PayloadChan, payload, pw)
               /\ attempts' = [attempts EXCEPT ![id] = <<@[1] + 1, @[2]>>]
               /\ UNCHANGED <<Subscriptions, quitCount, passQuit, missed>>
          ELSE /\ TryQuit(sub.QuitChan, qw)
               /\ passQuit' = IF qw THEN passQuit \cup {id} ELSE passQuit
               /\ Subscriptions' = Remove(Subscriptions, id)
               /\ missed' = [missed EXCEPT ![id] = TRUE]
               /\ attempts' =
                      [attempts EXCEPT ![id] = <<@[1] + 1, @[2] + 1>>]
               /\ UNCHANGED <<payloadBuf, received>>
    /\ UNCHANGED <<subscribers, locked, WatchedAddresses, quitClosed,
                   chainVars, loopPc, payload, callerVars, chanCfg,
                   passStart, sentLog, diffWork, processingErrs, exitCause,
                   builderVars, pipelineVars>>

\* Mutant of sendFinish: the gate is lowered after every fan-out, without the
\* len(sds.Subscriptions) == 0 test.
sendFinishAlwaysLowers ==
    /\ loopPc = "send_iter"
    /\ todo = {}
    /\ subscribers' = CompareAndSwap(subscribers, 1, 0)
    /\ locked' = FALSE
    /\ loopPc' = "select"
    /\ passStart' = EmptyMap
    /\ passQuit' = {}
    /\ attempts' = [i \in Ids |-> <<0, 0>>]
    /\ quitCount' = [t \in Callers |-> 0]
    /\ UNCHANGED <<Subscriptions, WatchedAddresses, quitClosed, chainVars,
                   payload, todo, callerVars, chanCfg, payloadBuf, received,
                   histVars,
                   builderVars, pipelineVars>>

\* send: after the range loop, lower the gate if nobody is left; Unlock.
sendFinish ==
    /\ loopPc = "send_iter"
    /\ todo = {}
    /\ subscribers' = IF DOMAIN Subscriptions = {}
                      THEN CompareAndSwap(subscribers, 1, 0)
                      ELSE subscribers
    /\ locked' = FALSE
    /\ loopPc' = "select"
    /\ passStart' = EmptyMap
    /\ passQuit' = {}
    /\ attempts' = [i \in Ids |-> <<0, 0>>]
    /\ quitCount' = [t \in Callers |-> 0]
    /\ UNCHANGED <<Subscriptions, WatchedAddresses, quitClosed, chainVars,
                   payload, todo, callerVars, chanCfg, payloadBuf, received,
                   histVars,
                   builderVars, pipelineVars>>

\* ------------------------------------------------------------------ close
\* close: sds.Lock(); the range loop starts over the current map.
closeLock ==
    /\ loopPc = "close_lock"
    /\ ~locked
    /\ locked' = TRUE
    /\ loopPc' = "close_iter"
    /\ todo' = DOMAIN Subscriptions
    /\ passStart' = Subscriptions
    /\ passQuit' = {}
    /\ attempts' = [i \in Ids |-> <<0, 0>>]
    /\ quitCount' = [t \in Callers |-> 0]
    /\ UNCHANGED <<Subscriptions, subscribers, WatchedAddresses, quitClosed,
                   chainVars, payload, callerVars, chanCfg, payloadBuf,
                   received, histVars,
                   builderVars, pipelineVars>>

\* Mutant of closeStep: the subscription is signalled but left in the map.
closeStepKeeps(id, qw) ==
    /\ loopPc = "close_iter"
    /\ id \in todo
    /\ todo' = todo \ {id}
    /\ qw \in Waiting(Subscriptions[id].QuitChan)
    /\ TryQuit(Subscriptions[id].QuitChan, qw)
    /\ passQuit' = IF qw THEN passQuit \cup {id} ELSE passQuit
    /\ attempts' = [attempts EXCEPT ![id] = <<@[1], @[2] + 1>>]
    /\ UNCHANGED <<Subscriptions, subscribers, locked, WatchedAddresses,
                   quitClosed, chainVars, loopPc, payload, callerVars,
                   chanCfg, payloadBuf, received, passStart, histVars,
                   builderVars, pipelineVars>>

\* close: one iteration of the range loop.
closeStep(id, qw) ==
    /\ loopPc = "close_iter"
    /\ id \in todo
    /\ todo' = todo \ {id}
    /\ qw \in Waiting(Subscriptions[id].QuitChan)
    /\ TryQuit(Subscriptions[id].QuitChan, qw)
    /\ passQuit' = IF qw THEN passQuit \cup {id} ELSE passQuit
    /\ Subscriptions' = Remove(Subscriptions, id)
    /\ attempts' = [attempts EXCEPT ![id] = <<@[1], @[2] + 1>>]
    /\ UNCHANGED <<subscribers, locked, WatchedAddresses, quitClosed,
                   chainVars, loopPc, payload, callerVars, chanCfg,
                   payloadBuf, received, passStart, histVars,
                   builderVars, pipelineVars>>

\* close: Unlock; Loop returns.
closeFinish ==
    /\ loopPc = "close_iter"
    /\ todo = {}
    /\ locked' = FALSE
    /\ loopPc' = "done"
    /\ UNCHANGED <<Subscriptions, subscribers, WatchedAddresses, quitClosed,
                   chainVars, payload, todo, callerVars, chanCfg, chanVars,
                   passVars, histVars,
                   builderVars, pipelineVars>>

\* -------------------------------------------------------------- consumers
\* A consumer takes the oldest buffered payload from its payload channel.
TakeBuffered(c) ==
    /\ ~ProcessDied
    /\ reads[c] # "never"
    /\ payloadBuf[c] # <<>>
    /\ received' = [received EXCEPT ![c] = Append(@, Head(payloadBuf[c]))]
    /\ payloadBuf' = [payloadBuf EXCEPT ![c] = Tail(@)]
    /\ UNCHANGED <<svcVars, chainVars, loopVars, callerVars, chanCfg,
                   quitCount, passVars, histVars,
                   builderVars, pipelineVars>>

\* ------------------------------------------------------------------- Next
Next ==
    \/ \E t \in Callers : SubscribeCAS(t)
    \/ \E t \in Callers : SubscribeInsert(t)
    \/ \E t \in Callers, id \in Ids : Unsubscribe(t, id)
    \/ Stop
    \/ \E sc \in StateChangesOver(Addresses, {modifiedAccount1}) :
          ChainEvent(sc)
    \/ ChainError
    \/ LoopEvent
    \/ LoopErr
    \/ LoopQuit
    \/ sendLock
    \/ \E id \in Ids, pw \in BOOLEAN, qw \in BOOLEAN : sendStep(id, pw, qw)
    \/ sendFinish
    \/ closeLock
    \/ \E id \in Ids, qw \in BOOLEAN : closeStep(id, qw)
    \/ closeFinish
    \/ \E c \in Callers : TakeBuffered(c)

Spec == Init /\ [][Next]_vars

\* ------------------------------------------------- the fan-out scenario
\* Both callers have subscribed with unbuffered channels before the first
\* event and make no further call; each consumer either is always blocked
\* in a receive when the loop gets to it, or never reads at all.
InitFanout ==
    /\ InitService
    /\ NoBuild
    /\ NoPipeline
    /\ WatchedAddresses = <<>>
    /\ Subscriptions = [i \in Ids |-> Subscription(i, i)]
    /\ subscribers = 1
    /\ chanCap = [t \in Callers |-> 0]
    /\ reads \in [Callers -> {"always", "never"}]

NextFanout ==
    \/ Stop
    \/ \E sc \in StateChangesOver(Addresses, {modifiedAccount1}) :
          ChainEvent(sc)
    \/ ChainError
    \/ LoopEvent
    \/ LoopErr
    \/ LoopQuit
    \/ sendLock
    \/ \E id \in Ids, pw \in BOOLEAN, qw \in BOOLEAN : sendStep(id, pw, qw)
    \/ sendFinish
    \/ closeLock
    \/ \E id \in Ids, qw \in BOOLEAN : closeStep(id, qw)
    \/ closeFinish

SpecFanout == InitFanout /\ [][NextFanout]_vars

\* ------------------------------------------------ the processing scenario
\* Watch lists as the configuration may give them.  The field is a list of
\* strings and nothing validates it: besides the Hex() form the tests use
\* there are lower-case and upper-case forms, with or without prefix, a
\* short form, a string that is no hex, and a string of twenty-one bytes.
UpperHex(a) == [i \in 1..AddressLength |-> UpperDigits[a[i] + 1]]
WatchedInputs ==
    { <<>>,
      << Hex(testAccount2Address) >>,
      << Hex(ContractAddr) >>,
      << <<"0", "X">> \o UpperHex(ContractAddr) >>,
      << <<"0", "x", "0">> >>,
      << Hex(ZeroAddress), EncodeToString(ContractAddr) >>,
      << <<"z", "z">> >>,
      << <<"0", "x", "0", "1">> \o EncodeToString(ContractAddr) >> }

\* One caller has subscribed with an unbuffered channel and reads as it
\* pleases; the watch list is any of the above.  As in the service tests,
\* the event channel holds one event: the chain waits for Loop to take it.
InitData ==
    /\ InitService
    /\ NoBuild
    /\ NoPipeline
    /\ WatchedAddresses \in WatchedInputs
    /\ Subscriptions = [i \in {1} |-> Subscription(i, i)]
    /\ subscribers = 1
    /\ chanCap = [t \in Callers |-> 0]
    /\ reads = [t \in Callers |-> "free"]

NextData ==
    \/ \E sc \in StateChangesOver(DataAddresses, DataAccounts) :
          eventCh = <<>> /\ ChainEvent(sc)
    \/ LoopEvent
    \/ sendLock
    \/ \E id \in Ids, pw \in BOOLEAN, qw \in BOOLEAN : sendStep(id, pw, qw)
    \/ sendFinish

SpecData == InitData /\ [][NextData]_vars

\* ============================================================ the builder
\* BuildStateDiff of package builder (src/unnamed/part_009) over a small
\* node store.  A trie is the map from its leaf keys to its leaf blobs;
\* MissingRoot is a root the trie database does not hold.
LeafKeys == {"k1", "k2"}
\* Pre-order of the trie walk.
LeafOrder == <<"k1", "k2">>
\* The address whose hash each leaf key is.
Preimage == [k \in LeafKeys |-> IF k = "k1" THEN testAccount1Address
                                            ELSE testAccount2Address]

\* Storage tries by root; "srMissing" is a storage root that is not stored.
emptyRoot == "sr0"
storageTries ==
    [sr \in {"sr0", "sr1", "sr2", "sr3", "sr4"} |->
        CASE sr = "sr0" -> <<>>
          [] sr = "sr1" -> [slot \in {"01"} |-> "0xaa"]
          [] sr = "sr2" -> [slot \in {"01", "02"} |->
                               IF slot = "01" THEN "0xbb" ELSE "0xcc"]
          [] sr = "sr3" -> [slot \in {"01"} |-> "0xaa"]
          [] sr = "sr4" -> [slot \in {"01", "02"} |->
                               IF slot = "01" THEN "0xbb" ELSE "0xdd"]]
\* The slots of a stored storage trie whose path runs through a node the
\* node store has lost: the walk still lists the leaves above, a lookup of
\* such a slot fails.
UnreadableSlots ==
    [sr \in DOMAIN storageTries |-> IF sr = "sr3" THEN {"02"} ELSE {}]

\* state.Account values and the leaf blobs holding them; the last blob is
\* no RLP encoding of an account.
BuilderAccounts ==
    { [Nonce |-> 0, Balance |-> 100, Root |-> "sr0", CodeHash |-> "c0"],
      [Nonce |-> 1, Balance |-> 200, Root |-> "sr1", CodeHash |-> "c0"],
      [Nonce |-> 1, Balance |-> 200, Root |-> "sr2", CodeHash |-> "c0"],
      [Nonce |-> 1, Balance |-> 200, Root |-> "sr4", CodeHash |-> "c0"],
      [Nonce |-> 2, Balance |-> 300, Root |-> "srMissing", CodeHash |-> "c0"] }
undecodableBlob == <<"junk">>
LeafBlobs == {EncodeToBytes(a) : a \in BuilderAccounts} \cup {undecodableBlob}

Tries == UNION {[S -> LeafBlobs] : S \in SUBSET LeafKeys}
\* A state root: the trie it is the hash of, and whether the trie database
\* holds it.
RootOf(trie) == [stored |-> TRUE, leaves |-> trie]
MissingRoot == [stored |-> FALSE, leaves |-> <<>>]
StateRoots == {RootOf(t) : t \in Tries} \cup {MissingRoot}

\* rlp.DecodeBytes(blob, &account) succeeds.
Decodable(blob) == blob # <<>> /\ blob[1] = "rlp"

\* trie.New(root, sdb.trieDB): the error, or "nil".
TrieNewErr(root) == IF root.stored THEN "nil" ELSE "missing trie node"
StorageTrieNewErr(sr) ==
    IF sr \in DOMAIN storageTries THEN "nil" ELSE "missing trie node"

\* Mutant of DifferenceLeaves: every leaf of b is yielded, shared or not.
DifferenceLeavesAll(a, b) == DOMAIN b

\* Mutant of DifferenceLeaves: only leaves at keys a does not have are
\* yielded; a changed blob at a shared key is not.
DifferenceLeavesNewKeys(a, b) == DOMAIN b \ DOMAIN a

\* The leaves trie.NewDifferenceIterator(a, b) yields: those of b that a
\* does not hold with the same blob.
DifferenceLeaves(a, b) ==
    {k \in DOMAIN b : k \notin DOMAIN a \/ a[k] # b[k]}

\* addressByPath: the preimage lookup in chainDB; the error, or "nil".
addressByPathErr(path) ==
    IF path \in DOMAIN chainDB THEN "nil" ELSE "not found"
addressByPath(path) == chainDB[path]

\* collectDiffNodes(a, b): walks the difference in pre-order; the first leaf
\* whose address lookup or account decoding fails ends the walk with that
\* error and no map.
LeafErr(b, k) ==
    IF addressByPathErr(k) # "nil" THEN addressByPathErr(k)
    ELSE IF ~Decodable(b[k]) THEN "rlp: decode error"
    ELSE "nil"

collectDiffNodes(a, b) ==
    LET leaves == DifferenceLeaves(a, b)
        failing == {i \in 1..Len(LeafOrder) :
                       LeafOrder[i] \in leaves /\ LeafErr(b, LeafOrder[i]) # "nil"}
    IN IF failing # {}
       THEN [accounts |-> <<>>,
             err |-> LeafErr(b, LeafOrder[CHOOSE i \in failing :
                                             \A j \in failing : i <= j])]
       ELSE [accounts |->
                [addr \in {addressByPath(k) : k \in leaves} |->
                    DecodeBytes(b[CHOOSE k \in leaves :
                                     addressByPath(k) = addr])],
             err |-> "nil"]

\* ----------------------------------------------------- keys (helpers.go)
\* Byte value of a character, for strings.Compare and sort.Strings.
Ascii(ch) ==
    CASE ch \in {"0", "1", "2", "3", "4", "5", "6", "7", "8", "9"} ->
             48 + HexVal(ch)
      [] ch \in {"A", "B", "C", "D", "E", "F"} -> 55 + HexVal(ch)
      [] ch \in {"a", "b", "c", "d", "e", "f"} -> 87 + HexVal(ch)
      [] ch = "X" -> 88
      [] ch = "x" -> 120
      [] OTHER -> 0

\* strings.Compare(a, b): -1, 0 or 1.
RECURSIVE Compare(_, _)
Compare(a, b) ==
    IF a = <<>> /\ b = <<>> THEN 0
    ELSE IF a = <<>> THEN -1
    ELSE IF b = <<>> THEN 1
    ELSE IF Ascii(Head(a)) < Ascii(Head(b)) THEN -1
    ELSE IF Ascii(Head(a)) > Ascii(Head(b)) THEN 1
    ELSE Compare(Tail(a), Tail(b))

\* sortKeys: the Hex() strings of the map's keys, sorted by sort.Strings.
sortKeys(data) ==
    LET keys == {Hex(addr) : addr \in DOMAIN data}
    IN CHOOSE o \in RangeOrders(keys) :
           \A i, j \in 1..Len(o) : i < j => Compare(o[i], o[j]) = -1

\* Mutant of findIntersectionFrom: a key of a that sorts after the key of b
\* is stepped over together with it.
RECURSIVE findIntersectionFromSkips(_, _, _, _, _)
findIntersectionFromSkips(a, b, iOfA, iOfB, updates) ==
    IF iOfA > Len(a) \/ iOfB > Len(b) THEN updates
    ELSE CASE Compare(a[iOfA], b[iOfB]) = -1 ->
                  findIntersectionFromSkips(a, b, iOfA + 1, iOfB, updates)
           [] Compare(a[iOfA], b[iOfB]) = 0 ->
                  findIntersectionFromSkips(a, b, iOfA + 1, iOfB + 1,
                                            Append(updates, a[iOfA]))
           [] OTHER ->
                  findIntersectionFromSkips(a, b, iOfA + 1, iOfB + 1,
                                            updates)

\* findIntersection: the sorted merge of two sorted key lists, from the
\* positions iOfA and iOfB on.
RECURSIVE findIntersectionFrom(_, _, _, _, _)
findIntersectionFrom(a, b, iOfA, iOfB, updates) ==
    IF iOfA > Len(a) \/ iOfB > Len(b) THEN updates
    ELSE CASE Compare(a[iOfA], b[iOfB]) = -1 ->
                  findIntersectionFrom(a, b, iOfA + 1, iOfB, updates)
           [] Compare(a[iOfA], b[iOfB]) = 0 ->
                  findIntersectionFrom(a, b, iOfA + 1, iOfB + 1,
                                       Append(updates, a[iOfA]))
           [] OTHER ->
                  findIntersectionFrom(a, b, iOfA, iOfB + 1, updates)

findIntersection(a, b) == findIntersectionFrom(a, b, 1, 1, <<>>)

\* ------------------------------------------------------- account diffs
\* A storage trie's leaves as the diff lists them: path to hex value.
DiffString(value) == [Value |-> value]
DiffUint64(value) == [Value |-> value]
DiffBigInt(value) == [Value |-> value]

\* buildStorageDiffsEventual(sr, creation): every leaf of the storage trie.
buildStorageDiffsEventual(sr, creation) ==
    IF StorageTrieNewErr(sr) # "nil"
    THEN [diffs |-> "nil", err |-> StorageTrieNewErr(sr)]
    ELSE [diffs |-> [path \in DOMAIN storageTries[sr] |->
                        DiffString(storageTries[sr][path])],
          err |-> "nil"]

\* Mutant of buildStorageDiffsIncremental: the new storage trie is walked
\* by its own iterator, so every one of its leaves is listed.
buildStorageDiffsIncrementalAll(oldSR, newSR) ==
    IF StorageTrieNewErr(oldSR) # "nil"
    THEN [diffs |-> "nil", err |-> StorageTrieNewErr(oldSR)]
    ELSE IF StorageTrieNewErr(newSR) # "nil"
    THEN [diffs |-> "nil", err |-> StorageTrieNewErr(newSR)]
    ELSE [diffs |-> [path \in DOMAIN storageTries[newSR] |->
                        DiffString(storageTries[newSR][path])],
          err |-> "nil"]

\* buildStorageDiffsIncremental(oldSR, newSR): the leaves of the new storage
\* trie that the old one does not hold with the same value.
buildStorageDiffsIncremental(oldSR, newSR) ==
    IF StorageTrieNewErr(oldSR) # "nil"
    THEN [diffs |-> "nil", err |-> StorageTrieNewErr(oldSR)]
    ELSE IF StorageTrieNewErr(newSR) # "nil"
    THEN [diffs |-> "nil", err |-> StorageTrieNewErr(newSR)]
    ELSE [diffs |-> [path \in DifferenceLeaves(storageTries[oldSR],
                                              storageTries[newSR]) |->
                        DiffString(storageTries[newSR][path])],
          err |-> "nil"]

\* sdb.chainDB.Get(val.CodeHash): no code is stored; the error is ignored.
codeBytes == "nil"

\* Mutant of buildDiffEventual: an account whose storage diff fails is
\* left out and the call goes on.
buildDiffEventualSkipsFailed(accounts, created) ==
    LET failing == {addr \in DOMAIN accounts :
                       buildStorageDiffsEventual(accounts[addr].Root,
                                                 created).err # "nil"}
    IN [diffs |->
           [addr \in DOMAIN accounts \ failing |->
               [Nonce |-> DiffUint64(accounts[addr].Nonce),
                Balance |-> DiffBigInt(accounts[addr].Balance),
                CodeHash |-> accounts[addr].CodeHash,
                Code |-> codeBytes,
                ContractRoot |-> DiffString(accounts[addr].Root),
                Storage |-> buildStorageDiffsEventual(
                                accounts[addr].Root, created).diffs]],
        err |-> "nil"]

\* buildDiffEventual(accounts, created): one AccountDiffEventual per
\* account, or the error of the first storage diff that fails.  Every
\* order of the range gives the same map; with an error the call returns
\* no map whichever account fails first.
buildDiffEventual(accounts, created) ==
    LET failing == {addr \in DOMAIN accounts :
                       buildStorageDiffsEventual(accounts[addr].Root,
                                                 created).err # "nil"}
    IN IF failing # {}
       THEN [diffs |-> "nil",
             err |-> buildStorageDiffsEventual(
                         accounts[CHOOSE addr \in failing : TRUE].Root,
                         created).err]
       ELSE [diffs |->
                [addr \in DOMAIN accounts |->
                    [Nonce |-> DiffUint64(accounts[addr].Nonce),
                     Balance |-> DiffBigInt(accounts[addr].Balance),
                     CodeHash |-> accounts[addr].CodeHash,
                     Code |-> codeBytes,
                     ContractRoot |-> DiffString(accounts[addr].Root),
                     Storage |-> buildStorageDiffsEventual(
                                     accounts[addr].Root, created).diffs]],
             err |-> "nil"]

\* Mutant of buildDiffIncrementalFrom: the updated keys are not deleted
\* from the creations and deletions maps.
RECURSIVE buildDiffIncrementalKeeps(_, _, _, _, _)
buildDiffIncrementalKeeps(cre, del, keys, i, updated) ==
    IF i > Len(keys)
    THEN [diffs |-> updated, creations |-> cre, deletions |-> del,
          err |-> "nil"]
    ELSE LET addr == HexToAddress(keys[i])
             createdAcc == cre[addr]
             deletedAcc == del[addr]
             storage == buildStorageDiffsIncremental(deletedAcc.Root,
                                                     createdAcc.Root)
         IN IF storage.err # "nil"
            THEN [diffs |-> "nil", creations |-> cre, deletions |-> del,
                  err |-> storage.err]
            ELSE buildDiffIncrementalKeeps(
                     cre, del, keys, i + 1,
                     Put(updated, addr,
                         [Nonce |-> DiffUint64(createdAcc.Nonce),
                          Balance |-> DiffBigInt(createdAcc.Balance),
                          CodeHash |-> createdAcc.CodeHash,
                          ContractRoot |-> DiffString(createdAcc.Root),
                          Storage |-> storage.diffs]))

\* buildDiffIncremental(creations, deletions, updatedKeys) from position i
\* of updatedKeys on: the accounts built so far and the two maps with the
\* handled keys deleted; the first storage diff that fails ends the call.
RECURSIVE buildDiffIncrementalFrom(_, _, _, _, _)
buildDiffIncrementalFrom(cre, del, keys, i, updated) ==
    IF i > Len(keys)
    THEN [diffs |-> updated, creations |-> cre, deletions |-> del,
          err |-> "nil"]
    ELSE LET addr == HexToAddress(keys[i])
             createdAcc == cre[addr]
             deletedAcc == del[addr]
             storage == buildStorageDiffsIncremental(deletedAcc.Root,
                                                     createdAcc.Root)
         IN IF storage.err # "nil"
            THEN [diffs |-> "nil", creations |-> cre, deletions |-> del,
                  err |-> storage.err]
            ELSE buildDiffIncrementalFrom(
                     Remove(cre, addr), Remove(del, addr), keys, i + 1,
                     Put(updated, addr,
                         [Nonce |-> DiffUint64(createdAcc.Nonce),
                          Balance |-> DiffBigInt(createdAcc.Balance),
                          CodeHash |-> createdAcc.CodeHash,
                          ContractRoot |-> DiffString(createdAcc.Root),
                          Storage |-> storage.diffs]))

buildDiffIncremental(cre, del, keys) ==
    buildDiffIncrementalFrom(cre, del, keys, 1, <<>>)

\* ------------------------------------------------------- BuildStateDiff
\* A pointer is the sequence of what it points to: <<>> is nil.
nil == <<>>
Ptr(v) == <<v>>

\* BuildStateDiff returns (diff, err) and ends the call.
Return(diff, err) ==
    /\ result' = [diff |-> diff, err |-> err]
    /\ bpc' = "returned"

\* The call under study: any two state roots, stored or not, and a node
\* store that holds the address of the first leaf key and may lack the
\* address of the second; the service is not involved.
InitCall(roots) ==
    /\ InitService
    /\ NoPipeline
    /\ WatchedAddresses = <<>>
    /\ Subscriptions = EmptyMap
    /\ subscribers = 0
    /\ chanCap = [t \in Callers |-> 0]
    /\ reads = [t \in Callers |-> "free"]
    /\ chainDB \in {Preimage, [k \in {"k1"} |-> Preimage[k]]}
    /\ call \in [oldStateRoot : roots, newStateRoot : roots,
                 blockNumber : {3}, blockHash : {"0xb3"}]
    /\ bpc = "start"
    /\ creations = <<>>
    /\ deletions = <<>>
    /\ collected = <<>>
    /\ updatedKeys = <<>>
    /\ updatedAccounts = <<>>
    /\ createdAccounts = <<>>
    /\ deletedAccounts = <<>>
    /\ result = <<>>

InitBuilder == InitCall(StateRoots)

\* Generate tries for old and new states.
OpenTries ==
    /\ bpc = "start"
    /\ IF TrieNewErr(call.oldStateRoot) # "nil"
       THEN Return(nil, TrieNewErr(call.oldStateRoot))
       ELSE IF TrieNewErr(call.newStateRoot) # "nil"
       THEN Return(nil, TrieNewErr(call.newStateRoot))
       ELSE bpc' = "opened" /\ UNCHANGED result
    /\ UNCHANGED <<serviceVars, pipelineVars, chainDB, call,
                   creations, deletions,
                   collected, updatedKeys, updatedAccounts, createdAccounts,
                   deletedAccounts>>

\* Find created accounts: collectDiffNodes(oldIt, newIt).
CollectCreations ==
    /\ bpc = "opened"
    /\ LET r == collectDiffNodes(call.oldStateRoot.leaves,
                                 call.newStateRoot.leaves)
       IN IF r.err # "nil"
          THEN Return(nil, r.err) /\ UNCHANGED creations
          ELSE /\ creations' = r.accounts
               /\ bpc' = "collected creations"
               /\ UNCHANGED result
    /\ UNCHANGED <<serviceVars, pipelineVars, chainDB, call,
                   deletions, collected,
                   updatedKeys, updatedAccounts, createdAccounts,
                   deletedAccounts>>

\* Find deleted accounts: collectDiffNodes(newIt, oldIt).
CollectDeletions ==
    /\ bpc = "collected creations"
    /\ LET r == collectDiffNodes(call.newStateRoot.leaves,
                                 call.oldStateRoot.leaves)
       IN IF r.err # "nil"
          THEN Return(nil, r.err) /\ UNCHANGED <<deletions, collected>>
          ELSE /\ deletions' = r.accounts
               /\ collected' = [creations |-> creations,
                                deletions |-> r.accounts]
               /\ bpc' = "collected deletions"
               /\ UNCHANGED result
    /\ UNCHANGED <<serviceVars, pipelineVars, chainDB, call,
                   creations, updatedKeys,
                   updatedAccounts, createdAccounts, deletedAccounts>>

\* Find all the diffed keys.
FindUpdatedKeys ==
    /\ bpc \in {"collected deletions", "given maps"}
    /\ LET createKeys == sortKeys(creations)
           deleteKeys == sortKeys(deletions)
       IN updatedKeys' = findIntersection(createKeys, deleteKeys)
    /\ bpc' = "found keys"
    /\ UNCHANGED <<serviceVars, pipelineVars, chainDB, call,
                   creations, deletions,
                   collected, updatedAccounts, createdAccounts,
                   deletedAccounts, result>>

\* buildDiffIncremental, which also deletes the updated keys from both maps.
BuildUpdated ==
    /\ bpc = "found keys"
    /\ LET r == buildDiffIncremental(creations, deletions, updatedKeys)
       IN /\ creations' = r.creations
          /\ deletions' = r.deletions
          /\ IF r.err # "nil"
             THEN Return(nil, r.err) /\ UNCHANGED updatedAccounts
             ELSE /\ updatedAccounts' = r.diffs
                  /\ bpc' = "built updated"
                  /\ UNCHANGED result
    /\ UNCHANGED <<serviceVars, pipelineVars, chainDB, call,
                   collected, updatedKeys,
                   createdAccounts, deletedAccounts>>

\* buildDiffEventual(creations, true)
BuildCreated ==
    /\ bpc = "built updated"
    /\ LET r == buildDiffEventual(creations, TRUE)
       IN IF r.err # "nil"
          THEN Return(nil, r.err) /\ UNCHANGED createdAccounts
          ELSE /\ createdAccounts' = r.diffs
               /\ bpc' = "built created"
               /\ UNCHANGED result
    /\ UNCHANGED <<serviceVars, pipelineVars, chainDB, call,
                   creations, deletions,
                   collected, updatedKeys, updatedAccounts, deletedAccounts>>

\* buildDiffEventual(deletions, false) and the return of the StateDiff.
BuildDeleted ==
    /\ bpc = "built created"
    /\ LET r == buildDiffEventual(deletions, FALSE)
       IN IF r.err # "nil"
          THEN Return(nil, r.err) /\ UNCHANGED deletedAccounts
          ELSE /\ deletedAccounts' = r.diffs
               /\ Return(Ptr([BlockNumber |-> call.blockNumber,
                              BlockHash |-> call.blockHash,
                              CreatedAccounts |-> createdAccounts,
                              DeletedAccounts |-> r.diffs,
                              UpdatedAccounts |-> updatedAccounts]), "nil")
    /\ UNCHANGED <<serviceVars, pipelineVars, chainDB, call,
                   creations, deletions,
                   collected, updatedKeys, updatedAccounts, createdAccounts>>

NextBuilder ==
    \/ OpenTries
    \/ CollectCreations
    \/ CollectDeletions
    \/ FindUpdatedKeys
    \/ BuildUpdated
    \/ BuildCreated
    \/ BuildDeleted

SpecBuilder == InitBuilder /\ [][NextBuilder]_vars

\* =================================== account diffs of package statediff
\* buildDiffEventual and buildDiffIncremental of src/statediff/builder.go,
\* whose diff values have a new and an old side.
diffValue(newValue, oldValue) == [NewValue |-> newValue, OldValue |-> oldValue]

\* oldTrie.TryGet(key) followed by common.ToHex: the leaf value the old
\* storage trie holds under the key; a key the trie does not hold gives no
\* bytes, written "0x0"; a lookup through a lost node gives an error.
oldTrieTryGet(oldSR, key) ==
    IF key \in UnreadableSlots[oldSR]
    THEN [value |-> "", err |-> "missing trie node"]
    ELSE IF key \in DOMAIN storageTries[oldSR]
    THEN [value |-> storageTries[oldSR][key], err |-> "nil"]
    ELSE [value |-> "0x0", err |-> "nil"]

\* buildStorageDiffsEventual of builder.go
statediffBuildStorageDiffsEventual(sr, creation) ==
    IF StorageTrieNewErr(sr) # "nil"
    THEN [diffs |-> "nil", err |-> StorageTrieNewErr(sr)]
    ELSE [diffs |-> [path \in DOMAIN storageTries[sr] |->
                        IF creation
                        THEN diffValue(Ptr(storageTries[sr][path]), nil)
                        ELSE diffValue(nil, Ptr(storageTries[sr][path]))],
          err |-> "nil"]

\* buildStorageDiffsIncremental of builder.go
statediffBuildStorageDiffsIncremental(oldSR, newSR) ==
    IF StorageTrieNewErr(oldSR) # "nil"
    THEN [diffs |-> "nil", err |-> StorageTrieNewErr(oldSR)]
    ELSE IF StorageTrieNewErr(newSR) # "nil"
    THEN [diffs |-> "nil", err |-> StorageTrieNewErr(newSR)]
    ELSE LET leaves == DifferenceLeaves(storageTries[oldSR],
                                        storageTries[newSR])
             looked == {path \in leaves :
                           oldTrieTryGet(oldSR, path).err = "nil"}
         IN [diffs |-> [path \in looked |->
                           diffValue(Ptr(storageTries[newSR][path]),
                                     Ptr(oldTrieTryGet(oldSR, path).value))],
             err |-> "nil"]

\* Mutant of statediffBuildDiffEventual: the value is put on the new side
\* whatever the created flag says.
statediffBuildDiffEventualNewSide(accounts, created) ==
    LET failing == {addr \in DOMAIN accounts :
                       statediffBuildStorageDiffsEventual(
                           accounts[addr].Root, created).err # "nil"}
    IN IF failing # {}
       THEN [diffs |-> "nil",
             err |-> statediffBuildStorageDiffsEventual(
                         accounts[CHOOSE addr \in failing : TRUE].Root,
                         created).err]
       ELSE [diffs |->
                [addr \in DOMAIN accounts |->
                    [Nonce |-> diffValue(Ptr(accounts[addr].Nonce), nil),
                     Balance |-> diffValue(Ptr(accounts[addr].Balance), nil),
                     CodeHash |-> accounts[addr].CodeHash,
                     Code |-> "",
                     ContractRoot |->
                         diffValue(Ptr(accounts[addr].Root), nil),
                     Storage |-> statediffBuildStorageDiffsEventual(
                                     accounts[addr].Root, created).diffs]],
             err |-> "nil"]

\* buildDiffEventual of builder.go: new values for a created account, old
\* values for a deleted one; no code is stored in chainDB.
statediffBuildDiffEventual(accounts, created) ==
    LET failing == {addr \in DOMAIN accounts :
                       statediffBuildStorageDiffsEventual(
                           accounts[addr].Root, created).err # "nil"}
        side(v) == IF created THEN diffValue(Ptr(v), nil)
                              ELSE diffValue(nil, Ptr(v))
    IN IF failing # {}
       THEN [diffs |-> "nil",
             err |-> statediffBuildStorageDiffsEventual(
                         accounts[CHOOSE addr \in failing : TRUE].Root,
                         created).err]
       ELSE [diffs |->
                [addr \in DOMAIN accounts |->
                    [Nonce |-> side(accounts[addr].Nonce),
                     Balance |-> side(accounts[addr].Balance),
                     CodeHash |-> accounts[addr].CodeHash,
                     Code |-> "",
                     ContractRoot |-> side(accounts[addr].Root),
                     Storage |-> statediffBuildStorageDiffsEventual(
                                     accounts[addr].Root, created).diffs]],
             err |-> "nil"]

\* buildDiffIncremental of builder.go, from position i of updatedKeys on.
RECURSIVE statediffBuildDiffIncrementalFrom(_, _, _, _, _)
statediffBuildDiffIncrementalFrom(cre, del, keys, i, updated) ==
    IF i > Len(keys)
    THEN [diffs |-> updated, creations |-> cre, deletions |-> del,
          err |-> "nil"]
    ELSE LET addr == HexToAddress(keys[i])
             createdAcc == cre[addr]
             deletedAcc == del[addr]
             storage == statediffBuildStorageDiffsIncremental(
                            deletedAcc.Root, createdAcc.Root)
         IN IF storage.err # "nil"
            THEN [diffs |-> "nil", creations |-> cre, deletions |-> del,
                  err |-> storage.err]
            ELSE statediffBuildDiffIncrementalFrom(
                     Remove(cre, addr), Remove(del, addr), keys, i + 1,
                     Put(updated, addr,
                         [Nonce |-> diffValue(Ptr(createdAcc.Nonce),
                                              Ptr(deletedAcc.Nonce)),
                          Balance |-> diffValue(Ptr(createdAcc.Balance),
                                                Ptr(deletedAcc.Balance)),
                          CodeHash |-> createdAcc.CodeHash,
                          ContractRoot |-> diffValue(Ptr(createdAcc.Root),
                                                     Ptr(deletedAcc.Root)),
                          Storage |-> storage.diffs]))

statediffBuildDiffIncremental(cre, del, keys) ==
    statediffBuildDiffIncrementalFrom(cre, del, keys, 1, <<>>)

\* ------------------------------------------ the three calls on given maps
\* buildDiffIncremental and buildDiffEventual as functions of their
\* arguments: any creations map and any deletions map over the two test
\* addresses, whoever the caller is, and as updatedKeys the sorted keys of
\* both.  One more account has the storage trie with the lost node.
StatediffAccounts ==
    BuilderAccounts \cup
        {[Nonce |-> 1, Balance |-> 200, Root |-> "sr3", CodeHash |-> "c0"]}
AccountMaps ==
    UNION {[S -> StatediffAccounts] :
              S \in SUBSET {testAccount1Address, testAccount2Address}}

InitDiffs ==
    /\ InitService
    /\ NoPipeline
    /\ WatchedAddresses = <<>>
    /\ Subscriptions = EmptyMap
    /\ subscribers = 0
    /\ chanCap = [t \in Callers |-> 0]
    /\ reads = [t \in Callers |-> "free"]
    /\ chainDB = Preimage
    /\ call = <<>>
    /\ bpc = "given maps"
    /\ creations \in AccountMaps
    /\ deletions \in AccountMaps
    /\ collected = [creations |-> creations, deletions |-> deletions]
    /\ updatedKeys = <<>>
    /\ updatedAccounts = <<>>
    /\ createdAccounts = <<>>
    /\ deletedAccounts = <<>>
    /\ result = <<>>

\* buildDiffIncremental(creations, deletions, &updatedKeys)
StatediffBuildUpdated ==
    /\ bpc = "found keys"
    /\ LET r == statediffBuildDiffIncremental(creations, deletions,
                                              updatedKeys)
       IN /\ creations' = r.creations
          /\ deletions' = r.deletions
          /\ IF r.err # "nil"
             THEN Return(nil, r.err) /\ UNCHANGED updatedAccounts
             ELSE /\ updatedAccounts' = r.diffs
                  /\ bpc' = "built updated"
                  /\ UNCHANGED result
    /\ UNCHANGED <<serviceVars, pipelineVars, chainDB, call,
                   collected, updatedKeys,
                   createdAccounts, deletedAccounts>>

\* buildDiffEventual(creations, true)
StatediffBuildCreated ==
    /\ bpc = "built updated"
    /\ LET r == statediffBuildDiffEventual(creations, TRUE)
       IN IF r.err # "nil"
          THEN Return(nil, r.err) /\ UNCHANGED createdAccounts
          ELSE /\ createdAccounts' = r.diffs
               /\ bpc' = "built created"
               /\ UNCHANGED result
    /\ UNCHANGED <<serviceVars, pipelineVars, chainDB, call,
                   creations, deletions,
                   collected, updatedKeys, updatedAccounts, deletedAccounts>>

\* buildDiffEventual(deletions, false)
StatediffBuildDeleted ==
    /\ bpc = "built created"
    /\ LET r == statediffBuildDiffEventual(deletions, FALSE)
       IN IF r.err # "nil"
          THEN Return(nil, r.err) /\ UNCHANGED deletedAccounts
          ELSE /\ deletedAccounts' = r.diffs
               /\ bpc' = "built deleted"
               /\ UNCHANGED result
    /\ UNCHANGED <<serviceVars, pipelineVars, chainDB, call,
                   creations, deletions,
                   collected, updatedKeys, updatedAccounts, createdAccounts>>

NextDiffs ==
    \/ FindUpdatedKeys
    \/ StatediffBuildUpdated
    \/ StatediffBuildCreated
    \/ StatediffBuildDeleted

SpecDiffs == InitDiffs /\ [][NextDiffs]_vars

\* ------------------------------------- BuildStateDiff of package statediff
\* collectDiffNodes of builder.go declares diffAccounts without make: the
\* map is nil, and the store of the first leaf that resolved and decoded is
\* an assignment to an entry of a nil map, a runtime fault.  The leaves
\* are met in walk order; a leaf that fails to resolve or decode before
\* any store returns its error.
statediffCollectDiffNodes(a, b) ==
    LET leaves == DifferenceLeaves(a, b)
        met == {i \in 1..Len(LeafOrder) : LeafOrder[i] \in leaves}
        first == LeafOrder[CHOOSE i \in met : \A j \in met : i <= j]
    IN IF met = {}
       THEN [accounts |-> <<>>, err |-> "nil", fault |-> "none"]
       ELSE IF LeafErr(b, first) # "nil"
       THEN [accounts |-> <<>>, err |-> LeafErr(b, first), fault |-> "none"]
       ELSE [accounts |-> <<>>, err |-> "nil",
             fault |-> "assignment to entry in nil map"]

\* Find created accounts: collectDiffNodes(oldIt, newIt).
StatediffCollectCreations ==
    /\ bpc = "opened"
    /\ LET r == statediffCollectDiffNodes(call.oldStateRoot.leaves,
                                          call.newStateRoot.leaves)
       IN IF r.fault # "none"
          THEN bpc' = "panicked" /\ UNCHANGED <<creations, result>>
          ELSE IF r.err # "nil"
          THEN Return(nil, r.err) /\ UNCHANGED creations
          ELSE /\ creations' = r.accounts
               /\ bpc' = "collected creations"
               /\ UNCHANGED result
    /\ UNCHANGED <<serviceVars, pipelineVars, chainDB, call,
                   deletions, collected,
                   updatedKeys, updatedAccounts, createdAccounts,
                   deletedAccounts>>

\* Find deleted accounts: collectDiffNodes(newIt, oldIt).
StatediffCollectDeletions ==
    /\ bpc = "collected creations"
    /\ LET r == statediffCollectDiffNodes(call.newStateRoot.leaves,
                                          call.oldStateRoot.leaves)
       IN IF r.fault # "none"
          THEN bpc' = "panicked" /\ UNCHANGED <<deletions, collected, result>>
          ELSE IF r.err # "nil"
          THEN Return(nil, r.err) /\ UNCHANGED <<deletions, collected>>
          ELSE /\ deletions' = r.accounts
               /\ collected' = [creations |-> creations,
                                deletions |-> r.accounts]
               /\ bpc' = "collected deletions"
               /\ UNCHANGED result
    /\ UNCHANGED <<serviceVars, pipelineVars, chainDB, call,
                   creations, updatedKeys,
                   updatedAccounts, createdAccounts, deletedAccounts>>

\* return &StateDiff{...}, nil
StatediffReturn ==
    /\ bpc = "built deleted"
    /\ Return(Ptr([BlockNumber |-> call.blockNumber,
                   BlockHash |-> call.blockHash,
                   CreatedAccounts |-> createdAccounts,
                   DeletedAccounts |-> deletedAccounts,
                   UpdatedAccounts |-> updatedAccounts]), "nil")
    /\ UNCHANGED <<serviceVars, pipelineVars, chainDB, call,
                   creations, deletions, collected, updatedKeys,
                   updatedAccounts, createdAccounts, deletedAccounts>>

\* The whole call, on the roots and node stores of InitBuilder and on the
\* roots of the state tries that hold the account whose storage trie has
\* lost a node.
StatediffStateRoots ==
    StateRoots \cup
        {RootOf(t) :
            t \in UNION {[S -> {EncodeToBytes(a) : a \in StatediffAccounts}] :
                            S \in SUBSET LeafKeys}}
InitStatediff == InitCall(StatediffStateRoots)

NextStatediff ==
    \/ OpenTries
    \/ StatediffCollectCreations
    \/ StatediffCollectDeletions
    \/ FindUpdatedKeys
    \/ StatediffBuildUpdated
    \/ StatediffBuildCreated
    \/ StatediffBuildDeleted
    \/ StatediffReturn

SpecStatediff == InitStatediff /\ [][NextStatediff]_vars

\* ------------------------------------------- keys of both maps (two ways)
\* findIntersection of package ipfs works on the two account maps: the
\* keys of created that deleted holds, then the keys of deleted that
\* created holds, each in the order its range statement visits them, and
\* then the first occurrence of every key.
RECURSIVE uniqueKeysList(_, _)
uniqueKeysList(keys, n) ==
    IF n = 0 THEN <<>>
    ELSE LET before == uniqueKeysList(keys, n - 1)
         IN IF \E i \in 1..(n - 1) : keys[i] = keys[n]
            THEN before
            ELSE Append(before, keys[n])

ipfsFindIntersection(created, deleted) ==
    {LET InDeleted(key) == key \in DOMAIN deleted
         InCreated(key) == key \in DOMAIN created
         fromCreated == SelectSeq(oc, InDeleted)
         fromDeleted == SelectSeq(od, InCreated)
         both == fromCreated \o fromDeleted
         keys == [i \in 1..Len(both) |-> Hex(both[i])]
     IN uniqueKeysList(keys, Len(keys)) :
        oc \in RangeOrders(DOMAIN created),
        od \in RangeOrders(DOMAIN deleted)}

\* Account maps over the four addresses of the builder tests, whose Hex()
\* strings mix upper-case and lower-case letters.
KeyAddresses ==
    {TestBankAddress, Account1Addr, Account2Addr, ContractAddr}
KeyMaps ==
    UNION {[S -> {[Nonce |-> 0, Balance |-> 100, Root |-> "sr0",
                   CodeHash |-> "c0"]}] : S \in SUBSET KeyAddresses}

\* The map-based intersection of the same two maps.
IntersectMaps ==
    /\ bpc = "found keys"
    /\ result' \in ipfsFindIntersection(creations, deletions)
    /\ bpc' = "intersected"
    /\ UNCHANGED <<serviceVars, pipelineVars, chainDB, call,
                   creations, deletions, collected, updatedKeys,
                   updatedAccounts, createdAccounts, deletedAccounts>>

\* Both passes have collected their accounts.
InitKeys ==
    /\ InitService
    /\ NoPipeline
    /\ WatchedAddresses = <<>>
    /\ Subscriptions = EmptyMap
    /\ subscribers = 0
    /\ chanCap = [t \in Callers |-> 0]
    /\ reads = [t \in Callers |-> "free"]
    /\ chainDB = <<>>
    /\ call = <<>>
    /\ bpc = "collected deletions"
    /\ creations \in KeyMaps
    /\ deletions \in KeyMaps
    /\ collected = [creations |-> creations, deletions |-> deletions]
    /\ updatedKeys = <<>>
    /\ updatedAccounts = <<>>
    /\ createdAccounts = <<>>
    /\ deletedAccounts = <<>>
    /\ result = <<>>

NextKeys == FindUpdatedKeys \/ IntersectMaps

SpecKeys == InitKeys /\ [][NextKeys]_vars

\* ------------------------------------------------------------- extractor
\* Blocks as the extractor reads them: the number, the parent's hash and
\* the state root of the header.  The hash of a block is the hash of its
\* header, so it is determined by these three.
BlockHash(b) == <<"hash", b.Number, b.ParentHash, b.Root>>
genesis == [Number |-> 0, ParentHash |-> <<>>, Root |-> "r0"]
ChildBlock(parent, root) ==
    [Number |-> parent.Number + 1, ParentHash |-> BlockHash(parent),
     Root |-> root]
BlockRoots == {"r1", "r2"}
ChildrenOf(bs) == {ChildBlock(b, r) : b \in bs, r \in BlockRoots}
\* The chain the node knows: the genesis block and two generations of
\* competing blocks on top of it.
KnownBlocks ==
    {genesis} \cup ChildrenOf({genesis}) \cup ChildrenOf(ChildrenOf({genesis}))
\* Every known block with its parent.
ChainPairs ==
    {pair \in KnownBlocks \X KnownBlocks :
        pair[2].ParentHash = BlockHash(pair[1])}

\* What a Builder may answer to BuildStateDiff, and a Publisher to
\* PublishStateDiff: both are interfaces of the extractor.
expectedStateDiff ==
    [BlockNumber |-> 1, BlockHash |-> "0xb1", CreatedAccounts |-> nil,
     DeletedAccounts |-> nil, UpdatedAccounts |-> nil]
TestStateDiff ==
    [BlockNumber |-> 2, BlockHash |-> "0xfa40",
     CreatedAccounts |-> <<"created">>, DeletedAccounts |-> <<"deleted">>,
     UpdatedAccounts |-> <<"updated">>]
\* A mock builder with nothing set answers (nil, nil), and a mock publisher
\* with nothing set answers ("", nil).
BuilderOutcomes ==
    {[diff |-> Ptr(expectedStateDiff), err |-> "nil"],
     [diff |-> Ptr(TestStateDiff), err |-> "nil"],
     [diff |-> nil, err |-> "nil"],
     [diff |-> nil, err |-> "missing trie node"],
     [diff |-> Ptr(TestStateDiff), err |-> "missing trie node"]}
PublisherOutcomes ==
    {[cid |-> "cid", err |-> "nil"],
     [cid |-> "", err |-> "nil"],
     [cid |-> "", err |-> "unhandled publishing mode"]}

\* Mutant of ExtractStateDiff: the builder is given the current block's
\* root as the old root too.
ExtractStateDiffCurrentRoots(parent, current, built, put) ==
    [build |-> [oldStateRoot |-> current.Root,
                newStateRoot |-> current.Root,
                blockNumber |-> current.Number,
                blockHash |-> BlockHash(current)],
     publish |-> IF built.err # "nil" THEN <<>> ELSE <<built.diff>>,
     ret |-> IF built.err # "nil"
             THEN [cid |-> "", err |-> built.err]
             ELSE put]

\* Mutant of ExtractStateDiff: the builder's error is not looked at.
ExtractStateDiffIgnoresError(parent, current, built, put) ==
    [build |-> [oldStateRoot |-> parent.Root,
                newStateRoot |-> current.Root,
                blockNumber |-> current.Number,
                blockHash |-> BlockHash(current)],
     publish |-> <<built.diff>>,
     ret |-> put]

\* extractor.ExtractStateDiff(parent, current), given what the builder
\* answers (built) and what the publisher would answer (put): the
\* arguments of the one builder call, the arguments of the publisher calls
\* made, and the returned (string, error).
ExtractStateDiff(parent, current, built, put) ==
    [build |-> [oldStateRoot |-> parent.Root,
                newStateRoot |-> current.Root,
                blockNumber |-> current.Number,
                blockHash |-> BlockHash(current)],
     publish |-> IF built.err # "nil" THEN <<>> ELSE <<built.diff>>,
     ret |-> IF built.err # "nil"
             THEN [cid |-> "", err |-> built.err]
             ELSE put]

\* The effect of one ExtractStateDiff call on the builder, the publisher
\* and the record of calls.
Extracted(parent, current, built, put) ==
    LET x == ExtractStateDiff(parent, current, built, put)
    IN /\ builderCalls' = Append(builderCalls, x.build)
       /\ publisherCalls' =
              publisherCalls \o
              [j \in 1..Len(x.publish) |-> [sd |-> x.publish[j],
                                            returned |-> put]]
       /\ extractCalls' =
              Append(extractCalls, [parent |-> parent, current |-> current,
                                    built |-> built, ret |-> x.ret])

\* A caller extracts the diff of a block against its parent.
Extract(parent, current) ==
    /\ spc = "extractor"
    /\ Len(extractCalls) < MaxExtracts
    /\ \E built \in BuilderOutcomes, put \in PublisherOutcomes :
          Extracted(parent, current, built, put)
    /\ UNCHANGED <<serviceVars, builderVars, blockVars>>

\* An extractor over some builder and publisher, as NewExtractor returns
\* it; no call has been made.
InitExtract ==
    /\ InitService
    /\ NoBuild
    /\ WatchedAddresses = <<>>
    /\ Subscriptions = EmptyMap
    /\ subscribers = 0
    /\ chanCap = [t \in Callers |-> 0]
    /\ reads = [t \in Callers |-> "free"]
    /\ builderCalls = <<>>
    /\ publisherCalls = <<>>
    /\ extractCalls = <<>>
    /\ events = <<>>
    /\ eventsClosed = FALSE
    /\ spc = "extractor"
    /\ ParentHashesLookedUp = <<>>
    /\ delivered = <<>>

NextExtract == \E pair \in ChainPairs : Extract(pair[1], pair[2])

SpecExtract == InitExtract /\ [][NextExtract]_vars

\* --------------------------------------------------- chain-event service
\* StateDiffService of package service: Start makes a channel of ten chain
\* events and Loop ranges over it.
ChainEventCap == 10

\* The blocks the chain announces: every known block but the genesis.
AnnouncedBlocks == KnownBlocks \ {genesis}

\* BlockChain.GetBlockByHash: a pointer to the block with that hash, nil
\* when the chain has none.
GetBlockByHash(hash) ==
    IF \E b \in KnownBlocks : BlockHash(b) = hash
    THEN Ptr(CHOOSE b \in KnownBlocks : BlockHash(b) = hash)
    ELSE nil

\* The chain posts the event of a block on the service's channel.
SendChainEvent(b) ==
    /\ spc = "loop"
    /\ ~eventsClosed
    /\ Len(delivered) < MaxBlocks
    /\ Len(events) < ChainEventCap
    /\ events' = Append(events, [Block |-> b])
    /\ delivered' = Append(delivered, b)
    /\ UNCHANGED <<serviceVars, builderVars, extractorVars, eventsClosed,
                   spc, ParentHashesLookedUp>>

\* The owner of the channel closes it.
CloseEvents ==
    /\ spc = "loop"
    /\ ~eventsClosed
    /\ eventsClosed' = TRUE
    /\ UNCHANGED <<serviceVars, builderVars, extractorVars, events, spc,
                   ParentHashesLookedUp, delivered>>

\* Mutant of ServiceLoopBody: the newest event on the channel is handled
\* first.
ServiceLoopBodyNewestFirst ==
    /\ spc = "loop"
    /\ events # <<>>
    /\ LET elem == events[Len(events)]
           currentBlock == elem.Block
           parentHash == currentBlock.ParentHash
           parentBlock == GetBlockByHash(parentHash)
       IN /\ events' = SubSeq(events, 1, Len(events) - 1)
          /\ ParentHashesLookedUp' = Append(ParentHashesLookedUp, parentHash)
          /\ IF parentBlock = nil
             THEN spc' = "panicked" /\ UNCHANGED extractorVars
             ELSE /\ \E built \in BuilderOutcomes, put \in PublisherOutcomes :
                        Extracted(parentBlock[1], currentBlock, built, put)
                  /\ UNCHANGED spc
    /\ UNCHANGED <<serviceVars, builderVars, eventsClosed, delivered>>

\* One iteration of `for elem := range events`: the oldest event is taken,
\* its parent looked up by hash and the pair extracted; what the extractor
\* returns is dropped.  Dereferencing a nil parent block is a runtime fault.
ServiceLoopBody ==
    /\ spc = "loop"
    /\ events # <<>>
    /\ LET elem == Head(events)
           currentBlock == elem.Block
           parentHash == currentBlock.ParentHash
           parentBlock == GetBlockByHash(parentHash)
       IN /\ events' = Tail(events)
          /\ ParentHashesLookedUp' = Append(ParentHashesLookedUp, parentHash)
          /\ IF parentBlock = nil
             THEN spc' = "panicked" /\ UNCHANGED extractorVars
             ELSE /\ \E built \in BuilderOutcomes, put \in PublisherOutcomes :
                        Extracted(parentBlock[1], currentBlock, built, put)
                  /\ UNCHANGED spc
    /\ UNCHANGED <<serviceVars, builderVars, eventsClosed, delivered>>

\* The range loop ends when the channel is closed and empty.
ServiceLoopReturn ==
    /\ spc = "loop"
    /\ events = <<>>
    /\ eventsClosed
    /\ spc' = "returned"
    /\ UNCHANGED <<serviceVars, builderVars, extractorVars, events,
                   eventsClosed, ParentHashesLookedUp, delivered>>

\* Loop has been started on an empty channel.
InitChainEvents ==
    /\ InitService
    /\ NoBuild
    /\ WatchedAddresses = <<>>
    /\ Subscriptions = EmptyMap
    /\ subscribers = 0
    /\ chanCap = [t \in Callers |-> 0]
    /\ reads = [t \in Callers |-> "free"]
    /\ builderCalls = <<>>
    /\ publisherCalls = <<>>
    /\ extractCalls = <<>>
    /\ events = <<>>
    /\ eventsClosed = FALSE
    /\ spc = "loop"
    /\ ParentHashesLookedUp = <<>>
    /\ delivered = <<>>

NextChainEvents ==
    \/ \E b \in AnnouncedBlocks : SendChainEvent(b)
    \/ CloseEvents
    \/ ServiceLoopBody
    \/ ServiceLoopReturn

SpecChainEvents == InitChainEvents /\ [][NextChainEvents]_vars

\* ---------------------------------------------------- chain-head service
\* StateDiffService of package statediff: Start subscribes an unbuffered
\* channel to the chain's head events and loops over a select with one
\* case.  A send on the channel completes when the service receives.

\* `case <-blockChannel:` takes an event from the chain and drops it.
HeadSelect(b) ==
    /\ spc = "select"
    /\ Len(delivered) < MaxBlocks
    /\ delivered' = Append(delivered, b)
    /\ spc' = "case"
    /\ UNCHANGED <<serviceVars, builderVars, extractorVars, events,
                   eventsClosed, ParentHashesLookedUp>>

\* The case body: `headOfChainEvent := <-blockChannel` takes the next
\* event, and its block is extracted against itself.
HeadCase(b) ==
    /\ spc = "case"
    /\ Len(delivered) < MaxBlocks
    /\ delivered' = Append(delivered, b)
    /\ \E built \in BuilderOutcomes, put \in PublisherOutcomes :
          Extracted(b, b, built, put)
    /\ spc' = "select"
    /\ UNCHANGED <<serviceVars, builderVars, events, eventsClosed,
                   ParentHashesLookedUp>>

\* Start has subscribed and is at the select.
InitChainHead ==
    /\ InitService
    /\ NoBuild
    /\ WatchedAddresses = <<>>
    /\ Subscriptions = EmptyMap
    /\ subscribers = 0
    /\ chanCap = [t \in Callers |-> 0]
    /\ reads = [t \in Callers |-> "free"]
    /\ builderCalls = <<>>
    /\ publisherCalls = <<>>
    /\ extractCalls = <<>>
    /\ events = <<>>
    /\ eventsClosed = FALSE
    /\ spc = "select"
    /\ ParentHashesLookedUp = <<>>
    /\ delivered = <<>>

NextChainHead ==
    \/ \E b \in AnnouncedBlocks : HeadSelect(b)
    \/ \E b \in AnnouncedBlocks : HeadCase(b)

SpecChainHead == InitChainHead /\ [][NextChainHead]_vars

\* ========================================================== properties
\* No Subscribe, Unsubscribe, send or close is mid-execution.
NoOperationRunning ==
    /\ \A t \in Callers : pc[t] = "idle"
    /\ loopPc \in {"select", "done"}

\* The loop is inside the critical section of send or of close.
LoopInPass == loopPc \in {"send_iter", "close_iter"}

\* Number of payloads consumer c has accepted so far, taken or buffered.
Accepted(c) == Len(received[c]) + Len(payloadBuf[c])

\* How many times payload p sits in what consumer c has accepted.
Copies(c, p) ==
    LET all == received[c] \o payloadBuf[c]
    IN Cardinality({k \in 1..Len(all) : all[k] = p})

\* C1: between operations, the subscribers gate is 1 exactly when the
\* Subscriptions map is non-empty.
GateMatchesRegistry ==
    NoOperationRunning => (subscribers = 1 <=> DOMAIN Subscriptions # {})

\* C2: the registry lock is never left held by a call that has returned:
\* whenever the mutex is locked, send or close is inside its critical
\* section (Subscribe and Unsubscribe take and release it in one step), so
\* every later operation can still take it.
LockNeverLeaked == locked => LoopInPass

\* C3: Unsubscribe(id) with id absent returns an error and leaves the map
\* and the gate unchanged; with id present it removes exactly that entry,
\* leaves every other entry as it was, returns nil, and lowers the gate to 0
\* only if the map became empty.
UnsubscribeContract ==
    [][\A t \in Callers, id \in Ids :
         Unsubscribe(t, id) =>
           IF id \notin DOMAIN Subscriptions
           THEN /\ ret' = "err"
                /\ Subscriptions' = Subscriptions
                /\ subscribers' = subscribers
           ELSE /\ ret' = "nil"
                /\ DOMAIN Subscriptions' = DOMAIN Subscriptions \ {id}
                /\ \A i \in DOMAIN Subscriptions' :
                       Subscriptions'[i] = Subscriptions[i]
                /\ subscribers' = IF DOMAIN Subscriptions' = {}
                                  THEN 0 ELSE subscribers]_vars

\* C3 witness: one of two subscriptions has been removed by an Unsubscribe
\* that returned nil, and the gate is still up.
UnsubscribeRemovedOne ==
    /\ ret = "nil"
    /\ Cardinality(DOMAIN Subscriptions) = 1
    /\ subscribers = 1
    /\ sentLog = <<>>

\* C4: while the gate is 0 the loop does no diff work: no step taken with
\* the gate at 0 runs processStateChanges.
NoDiffWorkWhileGateDown ==
    [][subscribers = 0 => diffWork' = diffWork]_vars

\* C5: when send is about to return (range loop finished, lock still held),
\* every subscription registered when send took the lock is still registered
\* exactly if its payload channel accepted the payload, and then it holds the
\* payload once and its entry is untouched; a subscription whose channel was
\* not ready is gone whether or not its quit signal was taken.
SendOutcome ==
    (loopPc = "send_iter" /\ todo = {}) =>
        /\ DOMAIN Subscriptions \subseteq DOMAIN passStart
        /\ \A id \in DOMAIN passStart :
             LET c == passStart[id].PayloadChan IN
             /\ Copies(c, payload) = IF id \in DOMAIN Subscriptions
                                     THEN 1 ELSE 0
             /\ id \in DOMAIN Subscriptions =>
                    Subscriptions[id] = passStart[id]
             /\ attempts[id][1] = 1

\* C5 witness: a finished send pass over two subscriptions kept id 1, whose
\* channel accepted, and evicted id 2, whose quit signal nobody took.
SendKeptOneEvictedOne ==
    /\ loopPc = "send_iter" /\ todo = {}
    /\ DOMAIN passStart = {1, 2}
    /\ DOMAIN Subscriptions = {1}
    /\ 2 \notin passQuit
    /\ quitCount[2] = 0

\* What consumer c has accepted so far, oldest first.
AcceptedLog(c) == received[c] \o payloadBuf[c]

\* C6: fan-out keeps arrival order per subscription: the payloads a consumer
\* has accepted carry strictly increasing block (arrival) numbers.
FanoutKeepsArrivalOrder ==
    \A c \in Callers :
        \A j, k \in 1..Len(AcceptedLog(c)) :
            j < k => DecodeBytes(AcceptedLog(c)[j].StateDiffRlp).BlockNumber
                       < DecodeBytes(AcceptedLog(c)[k].StateDiffRlp).BlockNumber

\* C6 witness: a consumer has taken the payloads of two events.
ConsumerTookTwo == \E c \in Callers : Len(received[c]) = 2

\* C7: a subscription whose payload channel was not ready for a payload is
\* evicted at once and is offered nothing later, and every send offers the
\* payload once to each registered subscription: so what a subscription
\* accepts between its Subscribe and its removal is a gapless run of the
\* payloads sent.
MissMeansEvicted ==
    [][/\ \A id \in Ids :
            /\ missed'[id] => id \notin DOMAIN Subscriptions'
            /\ (missed[id] /\ missed'[id]) => Accepted(id)' = Accepted(id)
       /\ (loopPc = "send_iter" /\ loopPc' = "select") =>
            \A id \in DOMAIN passStart : attempts[id][1] = 1]_vars

\* C7 witness: a subscription accepted a payload, then missed the next one
\* and is gone, while a later payload has been sent to the others.
MissedAfterAccepting ==
    \E id \in Ids :
        /\ missed[id]
        /\ Accepted(id) = 1
        /\ Len(sentLog) = 2
        /\ loopPc = "select"
        /\ id \notin DOMAIN Subscriptions

\* C8: two subscribers on unbuffered channels, A (id 1) reading every
\* payload and B (id 2) never reading: once send has returned for two
\* events with state changes, A has taken both payloads in order, B is out
\* of the registry, A is still in it and the gate is 1.
FanoutScenario ==
    (/\ reads = [t \in Callers |-> IF t = 1 THEN "always" ELSE "never"]
     /\ Len(sentLog) = 2
     /\ loopPc = "select") =>
        /\ received[1] = sentLog
        /\ DecodeBytes(sentLog[1].StateDiffRlp).BlockNumber
             < DecodeBytes(sentLog[2].StateDiffRlp).BlockNumber
        /\ received[2] = <<>>
        /\ DOMAIN Subscriptions = {1}
        /\ Subscriptions[1] = Subscription(1, 1)
        /\ subscribers = 1

\* C8 witness: the scenario has run: reader and non-reader, two sends done.
FanoutScenarioDone ==
    /\ reads = [t \in Callers |-> IF t = 1 THEN "always" ELSE "never"]
    /\ Len(sentLog) = 2
    /\ loopPc = "select"
    /\ Len(received[1]) = 2

\* One step of the loop inside the critical section of send or close.
PassStep ==
    \/ \E id \in Ids, pw \in BOOLEAN, qw \in BOOLEAN : sendStep(id, pw, qw)
    \/ sendFinish
    \/ \E id \in Ids, qw \in BOOLEAN : closeStep(id, qw)
    \/ closeFinish

\* C9: send and close never wait on a subscriber: inside the critical
\* section the loop can always take its next step whatever the consumers
\* do, it tries each channel of a subscription at most once, and only
\* unvisited subscriptions remain to be tried.
FanoutNeverWaits ==
    LoopInPass =>
        /\ ENABLED PassStep
        /\ \A id \in Ids : attempts[id][1] <= 1 /\ attempts[id][2] <= 1
        /\ todo \subseteq DOMAIN Subscriptions

\* C9 witness: send has finished its pass over two subscriptions although
\* no consumer reads its payload channel or its quit channel.
SendPassedNobodyReads ==
    /\ loopPc = "send_iter" /\ todo = {}
    /\ reads = [t \in Callers |-> "never"]
    /\ DOMAIN passStart = {1, 2}
    /\ DOMAIN Subscriptions = {}

\* C10 as stated: whenever Loop has returned, it did so after an upstream
\* error or a quit signal, the Subscriptions map is empty, every
\* subscription close found has taken one quit signal exactly if a receiver
\* was blocked on its quit channel, and nothing is in flight to a consumer.
LoopReturnedRegistryEmpty ==
    loopPc = "done" =>
        /\ exitCause \in {"err", "quit"}
        /\ exitCause = "quit" => quitClosed
        /\ DOMAIN Subscriptions = {}
        /\ \A id \in DOMAIN passStart :
             quitCount[passStart[id].QuitChan] =
                 IF id \in passQuit THEN 1 ELSE 0

\* C10 amended: Loop returns only after an upstream error or a quit signal
\* and after close(): at the step where close() unlocks and Loop returns the
\* map is empty, every subscription close found has taken one quit signal
\* exactly if a receiver was blocked on its quit channel; once Loop has
\* returned it stays returned, no payload is offered to any consumer, and the
\* map changes only by a Subscribe or Unsubscribe call.
LoopReturnsAfterClose ==
    [][/\ (loopPc # "done" /\ loopPc' = "done") =>
            /\ loopPc = "close_iter"
            /\ exitCause' \in {"err", "quit"}
            /\ exitCause' = "quit" => quitClosed'
            /\ Subscriptions' = EmptyMap
            /\ ~locked'
            /\ \A id \in DOMAIN passStart' :
                 quitCount'[passStart'[id].QuitChan] =
                     IF id \in passQuit' THEN 1 ELSE 0
       /\ loopPc = "done" =>
            /\ loopPc' = "done"
            /\ \A c \in Callers : Accepted(c)' = Accepted(c)
            /\ sentLog' = sentLog
            /\ quitCount' = quitCount
            /\ Subscriptions' # Subscriptions =>
                 \/ \E t \in Callers : SubscribeInsert(t)
                 \/ \E t \in Callers, id \in Ids : Unsubscribe(t, id)]_vars

\* C10 witness: Loop has returned after closing two subscriptions, one of
\* which took its quit signal and one of which did not.
LoopReturnedAfterClosingTwo ==
    /\ loopPc = "done"
    /\ DOMAIN passStart = {1, 2}
    /\ Cardinality(passQuit) = 1
    /\ \E c \in Callers : quitCount[c] = 1
    /\ DOMAIN Subscriptions = {}

\* ------------------------------------------------------------- shutdown
\* One step of the Loop goroutine outside the select statement: it is
\* inside send or close, waiting for the lock or walking the map.
LoopRuns ==
    \/ sendLock
    \/ closeLock
    \/ PassStep

\* The Loop goroutine keeps running (it takes a step whenever it can take
\* one for good), and select chooses fairly among its ready cases: a case
\* that is ready again and again is chosen in the end.
SpecLive ==
    /\ Init
    /\ [][Next]_vars
    /\ WF_vars(LoopRuns)
    /\ SF_vars(LoopQuit)
    /\ SF_vars(LoopErr)

\* C11: once Stop has closed QuitChan, the running Loop eventually returns,
\* having run close().
StopLeadsToReturn == quitClosed ~> (loopPc = "done")

\* ------------------------------------------------------------ processing
\* The state changes Loop passes to processStateChanges for event ev.
Filtered(ev) == filterByWatchedAddresses(ev.StateChanges)

\* Processing event ev returns an error.
ProcessingFails(ev) ==
    \E r \in processStateChanges(Filtered(ev), ev.Block) : r.err

\* C12: when processing an event fails, Loop consumes the event, logs the
\* error, calls no send, delivers nothing, leaves the registry and the gate
\* as they are, and is back in its select, not on its way out.
FailedEventSkipped ==
    [][(LoopEvent /\ ProcessingFails(Head(eventCh))) =>
            /\ processingErrs' = processingErrs + 1
            /\ eventCh' = Tail(eventCh)
            /\ sentLog' = sentLog
            /\ \A c \in Callers : Accepted(c)' = Accepted(c)
            /\ Subscriptions' = Subscriptions
            /\ subscribers' = subscribers
            /\ loopPc' = "select"
            /\ exitCause' = exitCause]_vars

\* C12 witness: the first event failed to process, and the loop went on to
\* deliver the payload of the second event to the subscriber.
FailedThenDelivered ==
    /\ processingErrs = 1
    /\ diffWork = 2
    /\ loopPc = "select"
    /\ Len(received[1]) = 1
    /\ DecodeBytes(received[1][1].StateDiffRlp).BlockNumber = 2
    /\ 1 \in DOMAIN Subscriptions

\* Handling an event without calling send touches no subscriber: nothing
\* is delivered, nobody is evicted, no quit signal is sent.
NoSubscriberTouched ==
    /\ loopPc' = "select"
    /\ sentLog' = sentLog
    /\ \A c \in Callers : Accepted(c)' = Accepted(c)
    /\ quitCount' = quitCount
    /\ Subscriptions' = Subscriptions
    /\ missed' = missed

\* C13 as stated: for every event Loop handles, send is called exactly when
\* the filtered state changes contain at least one account, and an event
\* with empty filtered state changes touches no subscriber.
SendIffFilteredNonEmpty ==
    [][LoopEvent =>
        /\ (loopPc' = "send_lock") <=> (DOMAIN Filtered(Head(eventCh)) # {})
        /\ DOMAIN Filtered(Head(eventCh)) = {} => NoSubscriberTouched]_vars

\* C13 amended: send is called exactly when the filtered state changes
\* contain at least one account and processing them succeeded; an event
\* for which send is not called touches no subscriber.
SendIffProcessedNonEmpty ==
    [][LoopEvent =>
        /\ (loopPc' = "send_lock") <=>
              /\ DOMAIN Filtered(Head(eventCh)) # {}
              /\ ~ProcessingFails(Head(eventCh))
        /\ loopPc' = "send_lock" =>
              /\ sentLog' = Append(sentLog, payload')
              /\ ~isEmptyPayload(payload')
        /\ loopPc' # "send_lock" => NoSubscriberTouched]_vars

\* C13 witness: under a watch list, one event was sent on and received and
\* another was handled without send, with no error and nobody evicted.
SentOneSkippedOne ==
    /\ WatchedAddresses # <<>>
    /\ diffWork = 2
    /\ processingErrs = 0
    /\ Len(sentLog) = 1
    /\ DecodeBytes(sentLog[1].StateDiffRlp).BlockNumber = 1
    /\ loopPc = "select"
    /\ Len(received[1]) = 1
    /\ 1 \in DOMAIN Subscriptions

\* ------------------------------------------------------ watched addresses
\* Reference reading of a hex string: lower case, no prefix, no leading
\* zeros.
Lower(ch) ==
    CASE ch = "A" -> "a" [] ch = "B" -> "b" [] ch = "C" -> "c"
      [] ch = "D" -> "d" [] ch = "E" -> "e" [] ch = "F" -> "f"
      [] ch = "X" -> "x" [] OTHER -> ch

RECURSIVE StripZeros(_)
StripZeros(str) ==
    IF str # <<>> /\ Head(str) = "0" THEN StripZeros(Tail(str)) ELSE str

CanonicalHex(str) ==
    LET low == [i \in 1..Len(str) |-> Lower(str[i])]
        body == IF Len(low) >= 2 /\ low[1] = "0" /\ low[2] = "x"
                THEN Tail(Tail(low)) ELSE low
    IN StripZeros(body)

\* Address a equals some watched string as hex, case-insensitively.
IsWatched(a) ==
    \E k \in 1..Len(WatchedAddresses) :
        CanonicalHex(WatchedAddresses[k])
            = StripZeros([i \in 1..Len(a) |-> LowerDigits[a[i] + 1]])

Restrict(f, S) == [x \in S |-> f[x]]

\* The addresses of the account diffs a payload carries.
PayloadAddresses(p) ==
    LET accountDiffs == DecodeBytes(p.StateDiffRlp).UpdatedAccounts
    IN {accountDiffs[i].Key : i \in 1..Len(accountDiffs)}

\* C14: filterByWatchedAddresses returns its input when nothing is watched
\* and otherwise exactly the entries whose address equals some watched
\* string as hex, case-insensitively, so a payload handed to send carries
\* exactly the watched addresses the event changed; the watch list is never
\* modified.
FilterKeepsWatched ==
    [][/\ WatchedAddresses' = WatchedAddresses
       /\ \A sc \in StateChangesOver(DataAddresses, DataAccounts) :
            filterByWatchedAddresses(sc) =
                IF WatchedAddresses = <<>> THEN sc
                ELSE Restrict(sc, {a \in DOMAIN sc : IsWatched(a)})
       /\ (LoopEvent /\ loopPc' = "send_lock") =>
            PayloadAddresses(payload') =
                {a \in DOMAIN Head(eventCh).StateChanges :
                    WatchedAddresses = <<>> \/ IsWatched(a)}]_vars

\* -------------------------------------------------------- payload content
\* Sequence seq lists every element of set S once and nothing else.
ListsOnce(seq, S) ==
    /\ Len(seq) = Cardinality(S)
    /\ {seq[i] : i \in 1..Len(seq)} = S

\* Account diff d is the diff of address addr with modified account ma:
\* keyed by the address, carrying the encoded account and one StorageDiff
\* per modified storage key with the encoded value.
IsDiffOf(d, addr, ma) ==
    /\ d.Key = addr
    /\ d.Value = EncodeToBytes(ma.Account)
    /\ ListsOnce([i \in 1..Len(d.Storage) |-> d.Storage[i].Key],
                 DOMAIN ma.Storage)
    /\ \A i \in 1..Len(d.Storage) :
         d.Storage[i].Value = EncodeToBytes(ma.Storage[d.Storage[i].Key])

\* Payload p is a payload of event ev: block number and hash of the event's
\* block and one account diff per address of the filtered state changes.
IsPayloadOf(p, ev) ==
    LET stateDiff == DecodeBytes(p.StateDiffRlp)
        accountDiffs == stateDiff.UpdatedAccounts
    IN /\ stateDiff.BlockNumber = ev.Block.Number
       /\ stateDiff.BlockHash = ev.Block.Hash
       /\ ListsOnce([i \in 1..Len(accountDiffs) |-> accountDiffs[i].Key],
                    DOMAIN Filtered(ev))
       /\ \A i \in 1..Len(accountDiffs) :
            IsDiffOf(accountDiffs[i], accountDiffs[i].Key,
                     Filtered(ev)[accountDiffs[i].Key])

\* C15: the payload of an event carries the block's number and hash and
\* exactly one AccountDiff per filtered address with exactly one
\* StorageDiff per modified key, and handling the same event again yields
\* the same payload.
PayloadContentRepeatable ==
    [][(LoopEvent /\ loopPc' = "send_lock") =>
        /\ IsPayloadOf(payload', Head(eventCh))
        /\ \A r \in processStateChanges(Filtered(Head(eventCh)),
                                        Head(eventCh).Block) :
             r.payload = payload']_vars

\* What every handling of an event does yield: a payload with the event's
\* block number and hash and the same account and storage diffs, listed in
\* an order that may differ from one handling to the next.
PayloadContentUpToOrder ==
    [][(LoopEvent /\ loopPc' = "send_lock") =>
        /\ IsPayloadOf(payload', Head(eventCh))
        /\ \A r \in processStateChanges(Filtered(Head(eventCh)),
                                        Head(eventCh).Block) :
             /\ ~r.err
             /\ IsPayloadOf(r.payload, Head(eventCh))]_vars

\* -------------------------------------------------------- builder claims
\* BuildStateDiff has returned a StateDiff and no error.
Succeeded == bpc = "returned" /\ result.err = "nil"

\* The returned diff has no account in any of its three collections and
\* carries the block number and hash passed in.
EmptyDiffReturned ==
    /\ Succeeded
    /\ DOMAIN result.diff[1].CreatedAccounts = {}
    /\ DOMAIN result.diff[1].DeletedAccounts = {}
    /\ DOMAIN result.diff[1].UpdatedAccounts = {}
    /\ result.diff[1].BlockNumber = call.blockNumber
    /\ result.diff[1].BlockHash = call.blockHash

\* C16 as stated: for every state root r, BuildStateDiff(r, r, n, h)
\* succeeds with three empty collections and the number and hash passed in.
SameRootAlwaysEmptyDiff ==
    (bpc = "returned" /\ call.oldStateRoot = call.newStateRoot)
        => EmptyDiffReturned

\* C16 amended: for every state root r that the trie database holds,
\* BuildStateDiff(r, r, n, h) succeeds with three empty collections and
\* the number and hash passed in.
StoredSameRootEmptyDiff ==
    (/\ bpc = "returned"
     /\ call.oldStateRoot = call.newStateRoot
     /\ call.oldStateRoot.stored)
        => EmptyDiffReturned

\* C16 witness: the call returned for one stored root with two leaves, one
\* of them without address preimage.
SameRootCallReturned ==
    /\ bpc = "returned"
    /\ call.oldStateRoot = call.newStateRoot
    /\ call.oldStateRoot.stored
    /\ DOMAIN call.oldStateRoot.leaves = LeafKeys
    /\ DOMAIN chainDB # LeafKeys
    /\ EmptyDiffReturned

\* C17: in every StateDiff returned, the address sets of CreatedAccounts,
\* DeletedAccounts and UpdatedAccounts are pairwise disjoint, and
\* UpdatedAccounts holds exactly the addresses that both the old-to-new
\* pass and the new-to-old pass collected.
CollectionsDisjoint ==
    Succeeded =>
        LET created == DOMAIN result.diff[1].CreatedAccounts
            deleted == DOMAIN result.diff[1].DeletedAccounts
            updated == DOMAIN result.diff[1].UpdatedAccounts
        IN /\ created \cap deleted = {}
           /\ created \cap updated = {}
           /\ deleted \cap updated = {}
           /\ updated = DOMAIN collected.creations
                            \cap DOMAIN collected.deletions

\* C17 witness: a diff was returned with an updated account and a created
\* account, both collected by the old-to-new pass.
UpdatedAndCreatedReturned ==
    /\ Succeeded
    /\ DOMAIN result.diff[1].UpdatedAccounts # {}
    /\ DOMAIN result.diff[1].CreatedAccounts # {}
    /\ Cardinality(DOMAIN collected.creations) = 2

\* C18: a returned diff lists an address as created iff its leaf is in the
\* new trie and not in the old, as deleted iff it is in the old and not in
\* the new, as updated iff it is in both with different account data; an
\* account that is the same in both is in none of the three.
AccountsClassified ==
    Succeeded =>
        LET old == call.oldStateRoot.leaves
            new == call.newStateRoot.leaves
        IN \A k \in LeafKeys :
             LET addr == Preimage[k]
             IN /\ addr \in DOMAIN result.diff[1].CreatedAccounts
                     <=> (k \in DOMAIN new /\ k \notin DOMAIN old)
                /\ addr \in DOMAIN result.diff[1].DeletedAccounts
                     <=> (k \in DOMAIN old /\ k \notin DOMAIN new)
                /\ addr \in DOMAIN result.diff[1].UpdatedAccounts
                     <=> (/\ k \in DOMAIN old
                          /\ k \in DOMAIN new
                          /\ old[k] # new[k])

\* C18 witness: a diff was returned for an old state with two accounts of
\* which the new state changes one and drops the other.
UpdatedAndDeletedReturned ==
    /\ Succeeded
    /\ DOMAIN call.oldStateRoot.leaves = LeafKeys
    /\ Cardinality(DOMAIN result.diff[1].UpdatedAccounts) = 1
    /\ Cardinality(DOMAIN result.diff[1].DeletedAccounts) = 1

\* The three diff values of an account diff d have exactly the given sides.
SidesAre(d, newAcc, oldAcc) ==
    LET new(f) == IF newAcc = nil THEN nil ELSE Ptr(newAcc[1][f])
        old(f) == IF oldAcc = nil THEN nil ELSE Ptr(oldAcc[1][f])
    IN /\ d.Nonce = diffValue(new("Nonce"), old("Nonce"))
       /\ d.Balance = diffValue(new("Balance"), old("Balance"))
       /\ d.ContractRoot = diffValue(new("Root"), old("Root"))

\* C19: buildDiffEventual with created=true gives each account of its map
\* an entry with the new side set and the old side absent, with
\* created=false an entry with only the old side set, and
\* buildDiffIncremental gives each updated key an entry with both sides,
\* new from the creations account and old from the deletions account, for
\* nonce, balance and contract root.
DiffSidesSet ==
    /\ bpc \in {"built updated", "built created", "built deleted"} =>
         /\ DOMAIN updatedAccounts =
                {HexToAddress(updatedKeys[i]) : i \in 1..Len(updatedKeys)}
         /\ \A addr \in DOMAIN updatedAccounts :
              SidesAre(updatedAccounts[addr],
                       Ptr(collected.creations[addr]),
                       Ptr(collected.deletions[addr]))
    /\ bpc \in {"built created", "built deleted"} =>
         /\ DOMAIN createdAccounts = DOMAIN creations
         /\ \A addr \in DOMAIN createdAccounts :
              SidesAre(createdAccounts[addr], Ptr(creations[addr]), nil)
    /\ bpc = "built deleted" =>
         /\ DOMAIN deletedAccounts = DOMAIN deletions
         /\ \A addr \in DOMAIN deletedAccounts :
              SidesAre(deletedAccounts[addr], nil, Ptr(deletions[addr]))

\* C19 witness: all three calls have run, giving an updated account whose
\* balance changed, a created account, and no deleted one.
ThreeDiffCallsDone ==
    /\ bpc = "built deleted"
    /\ DOMAIN updatedAccounts = {testAccount1Address}
    /\ updatedAccounts[testAccount1Address].Balance.NewValue
           # updatedAccounts[testAccount1Address].Balance.OldValue
    /\ DOMAIN createdAccounts = {testAccount2Address}
    /\ DOMAIN deletedAccounts = {}

\* Some step of the call on the given roots fails: a trie does not open,
\* or a leaf of either difference has no address preimage or no decodable
\* account, or the storage trie of an account of either difference does
\* not open.
SomeStepFails ==
    LET old == call.oldStateRoot.leaves
        new == call.newStateRoot.leaves
        badLeaf(t, k) == k \notin DOMAIN chainDB \/ ~Decodable(t[k])
        badStorage(t, k) ==
            StorageTrieNewErr(DecodeBytes(t[k]).Root) # "nil"
    IN \/ ~call.oldStateRoot.stored
       \/ ~call.newStateRoot.stored
       \/ \E k \in DifferenceLeaves(old, new) : badLeaf(new, k)
       \/ \E k \in DifferenceLeaves(new, old) : badLeaf(old, k)
       \/ \E k \in DifferenceLeaves(old, new) : badStorage(new, k)
       \/ \E k \in DifferenceLeaves(new, old) : badStorage(old, k)

\* C20: when opening a state trie, resolving a leaf's address, decoding a
\* leaf's account or building an account's storage diff fails,
\* BuildStateDiff returns an error and no StateDiff; it returns a StateDiff
\* only together with no error, and only when no step failed.
FailureReturnsNoDiff ==
    bpc = "returned" =>
        /\ SomeStepFails <=> result.err # "nil"
        /\ result.err # "nil" => result.diff = nil
        /\ result.err = "nil" => result.diff # nil
        /\ result.err \in {"nil", "missing trie node", "not found",
                           "rlp: decode error"}

\* C20 witness: both tries opened and both passes collected their accounts,
\* then the storage trie of a collected account failed to open and the call
\* returned the error without a diff.
StorageFailureReturned ==
    /\ bpc = "returned"
    /\ collected # <<>>
    /\ DOMAIN collected.creations # {}
    /\ result.err = "missing trie node"
    /\ result.diff = nil

\* The calls that got past the builder, in order.
BuiltCalls ==
    LET Built(c) == c.built.err = "nil"
    IN SelectSeq(extractCalls, Built)

\* C21: each ExtractStateDiff(parent, current) calls the builder once, with
\* the parent's root, the current block's root, number and hash; when the
\* builder succeeds the publisher receives exactly the StateDiff the builder
\* returned, and the publisher's result is what the call returns.
ExtractBuildsThenPublishes ==
    /\ Len(builderCalls) = Len(extractCalls)
    /\ \A i \in 1..Len(extractCalls) :
          LET c == extractCalls[i]
          IN builderCalls[i] = [oldStateRoot |-> c.parent.Root,
                                newStateRoot |-> c.current.Root,
                                blockNumber |-> c.current.Number,
                                blockHash |-> BlockHash(c.current)]
    /\ Len(publisherCalls) = Len(BuiltCalls)
    /\ \A j \in 1..Len(BuiltCalls) :
          /\ j <= Len(publisherCalls)
          /\ publisherCalls[j].sd = BuiltCalls[j].built.diff
          /\ BuiltCalls[j].ret = publisherCalls[j].returned

\* C21 witness: a call whose builder succeeded with a diff, which was
\* published and whose content id was returned.
DiffPublished ==
    \E i \in 1..Len(extractCalls) :
        /\ extractCalls[i].built = [diff |-> Ptr(TestStateDiff), err |-> "nil"]
        /\ extractCalls[i].parent.Root # extractCalls[i].current.Root
        /\ extractCalls[i].ret = [cid |-> "cid", err |-> "nil"]
        /\ Len(publisherCalls) > 0

\* C22: a call whose builder fails returns the builder's error, and the
\* publisher is invoked only by the calls whose builder succeeded; a call
\* whose builder succeeds and whose publisher fails returns the publisher's
\* error.
ExtractErrors ==
    /\ \A i \in 1..Len(extractCalls) :
          extractCalls[i].built.err # "nil" =>
              extractCalls[i].ret.err = extractCalls[i].built.err
    /\ Len(publisherCalls) = Len(BuiltCalls)
    /\ \A j \in 1..Len(BuiltCalls) :
          (j <= Len(publisherCalls)
             /\ publisherCalls[j].returned.err # "nil") =>
              BuiltCalls[j].ret.err = publisherCalls[j].returned.err

\* C22 witness: one call failed in the builder and another in the
\* publisher.
BothFailuresSeen ==
    /\ \E i \in 1..Len(extractCalls) :
          /\ extractCalls[i].built.err = "missing trie node"
          /\ extractCalls[i].ret.err = "missing trie node"
    /\ \E i \in 1..Len(extractCalls) :
          /\ extractCalls[i].built.err = "nil"
          /\ extractCalls[i].ret.err = "unhandled publishing mode"

\* C23: Loop hands the extractor the events' blocks in the order the chain
\* sent them, each once and each with the parent looked up by the block's
\* ParentHash, and it returns only once the channel is closed and drained,
\* when the extractor has seen as many pairs as events were sent.
EventsExtractedInOrder ==
    /\ Len(extractCalls) + Len(events) = Len(delivered)
    /\ Len(ParentHashesLookedUp) = Len(extractCalls)
    /\ \A i \in 1..Len(extractCalls) :
          /\ extractCalls[i].current = delivered[i]
          /\ ParentHashesLookedUp[i] = delivered[i].ParentHash
          /\ BlockHash(extractCalls[i].parent) = delivered[i].ParentHash
    /\ spc = "returned" =>
          /\ eventsClosed
          /\ events = <<>>
          /\ Len(extractCalls) = Len(delivered)
    /\ spc # "panicked"

\* C23 witness: two events of different blocks were sent, the channel was
\* closed, and Loop returned after extracting both.
TwoEventsThenReturned ==
    /\ spc = "returned"
    /\ Len(delivered) = 2
    /\ delivered[1] # delivered[2]
    /\ Len(extractCalls) = 2

\* C29: in the chain-head service, whenever the loop is back at its select,
\* every event the chain delivered has had one ExtractStateDiff call for
\* its block, in order.
EveryHeadExtracted ==
    spc = "select" =>
        /\ Len(extractCalls) = Len(delivered)
        /\ \A i \in 1..Len(delivered) :
              i <= Len(extractCalls) => extractCalls[i].current = delivered[i]

\* C24: when a Subscribe call returns, the registry maps the id to the two
\* channels of the call and every other entry is as before, the gate is 1,
\* and an id that was registered already leaves the number of
\* subscriptions unchanged.
SubscribeFrame ==
    [][\A t \in Callers :
         (pc[t] = "sub_lock" /\ pc'[t] = "idle") =>
            /\ Subscriptions' = Put(Subscriptions, t, Subscription(t, t))
            /\ subscribers' = 1
            /\ t \in DOMAIN Subscriptions =>
                  Cardinality(DOMAIN Subscriptions') =
                      Cardinality(DOMAIN Subscriptions)]_vars

\* C25: the Subscriptions map is read and written only under the mutex:
\* the loop holds it for the whole of a send or close pass, Subscribe's
\* store and Unsubscribe run only when nobody holds it and no pass is under
\* way, a pass starts only by taking the free mutex, and the map changes
\* only inside one of these critical sections.
RegistryAccessLocked ==
    [][/\ LoopInPass => locked
       /\ \A t \in Callers, id \in Ids :
             (SubscribeInsert(t) \/ Unsubscribe(t, id)) =>
                 (~locked /\ ~LoopInPass)
       /\ (~LoopInPass /\ LoopInPass') => (~locked /\ locked')
       /\ Subscriptions' # Subscriptions =>
             \/ LoopInPass /\ locked /\ pc' = pc
             \/ \E t \in Callers, id \in Ids :
                   SubscribeInsert(t) \/ Unsubscribe(t, id)]_vars

\* C25 witness: the loop is in the middle of a fan-out over a registered
\* subscription while a Subscribe call waits for the mutex.
SubscribeWaitsForPass ==
    /\ loopPc = "send_iter"
    /\ todo # {}
    /\ locked
    /\ \E t \in Callers : pc[t] = "sub_lock"

\* The Hex() strings of the addresses both maps hold.
KeysOfBoth == {Hex(a) : a \in DOMAIN creations \cap DOMAIN deletions}
Elements(list) == {list[i] : i \in 1..Len(list)}
NoDuplicate(list) ==
    \A i, j \in 1..Len(list) : i # j => list[i] # list[j]

\* C26: for the sorted duplicate-free key lists of any two maps the sorted
\* merge ends with exactly the keys of both, each once and in sorted order;
\* the map-based version returns the same keys without a duplicate.
IntersectionIsExact ==
    /\ bpc \in {"found keys", "intersected"} =>
          /\ Elements(updatedKeys) = KeysOfBoth
          /\ \A i, j \in 1..Len(updatedKeys) :
                i < j => Compare(updatedKeys[i], updatedKeys[j]) = -1
    /\ bpc = "intersected" =>
          /\ Elements(result) = Elements(updatedKeys)
          /\ NoDuplicate(result)

\* C26 witness: each map has a key the other lacks, they share two keys,
\* and both versions have returned.
TwoSharedKeysFound ==
    /\ bpc = "intersected"
    /\ Len(updatedKeys) = 2
    /\ Len(result) = 2
    /\ DOMAIN creations \ DOMAIN deletions # {}
    /\ DOMAIN deletions \ DOMAIN creations # {}

\* The slots of the new storage trie that the old one lacks or holds with
\* another value.
ChangedSlots(oldSR, newSR) ==
    {slot \in DOMAIN storageTries[newSR] :
        \/ slot \notin DOMAIN storageTries[oldSR]
        \/ storageTries[oldSR][slot] # storageTries[newSR][slot]}

\* The leaf keys under which the two state tries of the call hold
\* different accounts of a known address, both of whose storage tries open
\* and one of whose changed slots cannot be read in the old storage trie.
CallSlotReadFails ==
    {k \in DOMAIN call.oldStateRoot.leaves
              \cap DOMAIN call.newStateRoot.leaves :
        LET old == call.oldStateRoot.leaves[k]
            new == call.newStateRoot.leaves[k]
        IN /\ old # new
           /\ Decodable(old)
           /\ Decodable(new)
           /\ addressByPathErr(k) = "nil"
           /\ DecodeBytes(old).Root \in DOMAIN storageTries
           /\ DecodeBytes(new).Root \in DOMAIN storageTries
           /\ ChangedSlots(DecodeBytes(old).Root, DecodeBytes(new).Root)
                  \cap UnreadableSlots[DecodeBytes(old).Root] # {}}

\* C27: a BuildStateDiff call on two stored roots with an updated account
\* one of whose changed slots cannot be read in the old storage trie ends
\* by returning an error.
SlotReadErrorFailsDiff ==
    (/\ bpc \in {"returned", "panicked"}
     /\ call.oldStateRoot.stored
     /\ call.newStateRoot.stored
     /\ CallSlotReadFails # {}) =>
        (bpc = "returned" /\ result.err # "nil")

\* C30: the incremental storage diff of every updated account has an entry
\* for exactly the slots of the new storage trie that the old one lacks or
\* holds with another value; a slot only the old trie holds has none.
IncrementalStorageEntries ==
    bpc \in {"built updated", "built created"} =>
        \A addr \in DOMAIN updatedAccounts :
            LET oldSR == collected.deletions[addr].Root
                newSR == collected.creations[addr].Root
            IN /\ DOMAIN updatedAccounts[addr].Storage =
                      ChangedSlots(oldSR, newSR)
               /\ \A slot \in DOMAIN storageTries[oldSR] :
                     slot \notin DOMAIN storageTries[newSR] =>
                         slot \notin DOMAIN updatedAccounts[addr].Storage

\* C30 witness: two accounts have been updated; the storage of one kept a
\* slot as it was and changed another, the storage of the other changed a
\* slot and lost one.
StorageDiffedBothWays ==
    /\ bpc = "built updated"
    /\ \E addr \in DOMAIN updatedAccounts :
          /\ collected.deletions[addr].Root = "sr2"
          /\ collected.creations[addr].Root = "sr4"
          /\ DOMAIN updatedAccounts[addr].Storage = {"02"}
    /\ \E addr \in DOMAIN updatedAccounts :
          /\ collected.deletions[addr].Root = "sr2"
          /\ collected.creations[addr].Root = "sr1"
          /\ DOMAIN updatedAccounts[addr].Storage = {"01"}

\* The leaves of the old-to-new difference all resolve and decode, and
\* there is at least one.
CreationLeavesGood ==
    LET leaves == DifferenceLeaves(call.oldStateRoot.leaves,
                                   call.newStateRoot.leaves)
    IN /\ call.oldStateRoot.stored
       /\ call.newStateRoot.stored
       /\ leaves # {}
       /\ \A k \in leaves : LeafErr(call.newStateRoot.leaves, k) = "nil"

\* C28: on a difference with at least one leaf, all of them resolving and
\* decoding, collectDiffNodes ends without a runtime fault and returns the
\* map of every decoded leaf under its address.
CollectRecordsEveryLeaf ==
    (bpc \notin {"start", "opened"} /\ CreationLeavesGood) =>
        /\ bpc # "panicked"
        /\ bpc = "collected creations" =>
              LET new == call.newStateRoot.leaves
                  leaves == DifferenceLeaves(call.oldStateRoot.leaves, new)
              IN /\ DOMAIN creations = {addressByPath(k) : k \in leaves}
                 /\ \A k \in leaves :
                       creations[addressByPath(k)] = DecodeBytes(new[k])

====
